---- MODULE Spec2Model ----
(***************************************************************************)
(* Ingestion consistency and address resolution of skbasava/simpleRag.     *)
(*                                                                         *)
(*   Spec        the supersession engine of ingestion.py (ingest_prtn),    *)
(*               one statement of the handler per step, autocommit store,  *)
(*               with a reader of the active rows                          *)
(*   SpecDoc     ingest_project of ingestion.py run repeatedly over one    *)
(*               policy file                                               *)
(*   SpecLedger  the progress ledger of retries.py (ingest_one_file,       *)
(*               ingest_chunks, retry), with process kills                 *)
(*   SpecQuery   the statements SQLQueryBuilder.build of sql-explain.py    *)
(*               and of sql_latest.py makes, executed on xml_chunks        *)
(*   SpecOrch    query() coroutines of unifiedpoliciy.py through           *)
(*               PolicyOrchestrator.ensure_ingested                        *)
(*   SpecRetry   one call of retry of retries.py                           *)
(*   SpecClient  one call of IPCatalogClient.request of ipcatClient.py     *)
(*   SpecSearch  the search step of query() of unifiedpoliciy.py           *)
(*   SpecService successive calls of RAGService.answer of service.py       *)
(*   SpecSm      runs of ingest_single_xml of state_machine.py over        *)
(*               PostgresDriver of postgres.py                             *)
(*   SpecTree    address queries of UnifiedPolicyEngine through its tree   *)
(*               cache while ingestions change the scope                   *)
(*   SpecApi     route_by_address and route_exact of rag_api.py            *)
(*   SpecConcurrent  two pipelines calling ingest_prtn side by side        *)
(*   SpecHash    a region applied again with its domain lists reordered    *)
(*   SpecToken   threads on one TokenManager of ipcatClient.py             *)
(*   SpecMpu     get_policy_by_mpu of orchestrator_neww.py while redis     *)
(*               keys expire                                               *)
(***************************************************************************)
EXTENDS Integers, Sequences, FiniteSets, TLC

\* ------------------------------------------------------------------------
\* Bounds of the model
\* ------------------------------------------------------------------------

\* number of rows the store may receive (uuid4 draws) in one behaviour
MaxChunks == 3

\* number of <PRTn> nodes of a policy file
MaxDocLen == 2

\* number of get_policy_by_mpu calls that are followed
MaxLookups == 3

\* tasks that call get_policy_by_mpu on one event loop
NumTasks == 2

\* number of get_token calls and forced refreshes that are followed
MaxTokenCalls == 3

\* number of entries of the rdomains / wdomains attribute of a <PRTn> node
MaxDomains == 2

\* number of rows the store may receive while two pipelines run side by side
MaxConcurrentChunks == 2

\* number of complete passes over a policy file that are followed
MaxPasses == 2

\* number of chunks parse_xml_into_chunks yields for the file of the ledger
NumChunks == 3

\* number of rows of table xml_chunks
MaxTableRows == 2

\* addresses are 0..MaxAddr
MaxAddr == 2

\* number of query() coroutines on the event loop
NumCallers == 3

\* largest value of the parameter retries of retry(fn, retries)
MaxRetries == 3

\* number of regions redis may hold for the scope of a search
MaxRegions == 2

\* number of calls of answer() on one AsyncRAGService
MaxTurns == 3

\* ------------------------------------------------------------------------
\* Values
\* ------------------------------------------------------------------------

NULL == "NULL"

\* supersedes: Optional[str] = None, and "no row" of the look-up; uuids are
\* numbered from 1
NoId == 0

\* the pipelines that call ingest_prtn: main() of ingestion.py run once
\* (Pipelines), or twice side by side (Procs)
Procs == {"w1", "w2"}
Pipelines == {"w1"}

\* <PRTn index=.. profile=.. start=..> nodes the parser can hand over
RgIndexes == {0}
Profiles == {NULL, "", "TZ"}
Starts == {16, 32}

Prtns == [rg_index : RgIndexes, profile : Profiles, start_hex : Starts]

NoPrtn == [rg_index |-> 0, profile |-> NULL, start_hex |-> 0]

\* ------------------------------------------------------------------------
\* State
\* ------------------------------------------------------------------------

VARIABLES
    policy_chunks,   \* ingestion.py: rows of table policy_chunks
    wv,              \* ingestion.py: uuids of the objects in Weaviate
    nextId,          \* ingestion.py: number of uuid4 draws so far
    pc,              \* position of each pipeline inside ingest_prtn
    prtnOf,          \* argument prtn of the running ingest_prtn
    oldOf,           \* local old_chunk_id (NoId: none)
    newOf,           \* local new_chunk_id (NoId: not drawn yet)
    outcome,         \* how the last ingest_prtn of each pipeline ended
    seen,            \* what the reader of the active rows last observed
    doc,             \* ingestion.py: the <PRTn> nodes of the policy file
    docPos,          \* nodes of the file handed to ingest_prtn in this pass
    passNo,          \* complete passes over the file made in a row
    snap             \* policy_chunks at the end of the last complete pass

applyVars ==
    <<policy_chunks, wv, nextId, pc, prtnOf, oldOf, newOf, outcome, seen>>

docVars == <<doc, docPos, passNo, snap>>

\* retries.py: the ledger and one run of ingest_one_file on one xml_path
VARIABLES
    ingestion_progress,  \* the row of table ingestion_progress (or ABSENT)
    rpc,                 \* position inside ingest_one_file / ingest_chunks
    idx,                 \* ingest_chunks: loop index
    last_chunk,          \* ingest_chunks: local last_chunk
    attempt,             \* retry(...) around ingest_single_chunk: attempt
    pgAttempt,           \* retry(...) around pg.insert_chunk: attempt
    wvAttempt,           \* retry(...) around wv.insert_vector: attempt
    pgChunks,            \* chunk indexes pg.insert_chunk has stored
    wvChunks,            \* chunk indexes wv.insert_vector has stored
    spy,                 \* chunk indexes given to ingest_single_chunk, this run
    rowAtStart,          \* the ledger row when this run was called
    lastGood             \* index written by the latest update_chunk

ledgerVars ==
    <<ingestion_progress, rpc, idx, last_chunk, attempt, pgAttempt, wvAttempt,
      pgChunks, wvChunks, spy, rowAtStart, lastGood>>

\* sql-explain.py, sql_latest.py: table xml_chunks and the latest query
VARIABLES
    xml_chunks,      \* the rows of table xml_chunks
    filters,         \* SQLQueryBuilder.filters of the latest query
    result           \* the rows the built statement returned, in order

queryVars == <<xml_chunks, filters, result>>

\* policyorchestrator.py / unifiedpoliciy.py: one (chip, version) scope
VARIABLES
    done_key,        \* redis key ipcat:done:{chip}:{version} exists
    cpc,             \* position of each query() coroutine
    ingestions       \* number of _ingest_chip calls started

orchVars == <<done_key, cpc, ingestions>>

\* retries.py: one call retry(fn, retries, base_delay)
VARIABLES
    r_retries,       \* parameter retries
    r_base_delay,    \* parameter base_delay
    r_fn,            \* what the successive calls of fn do: "ok" or "err"
    r_attempt,       \* loop variable attempt
    r_calls,         \* number of calls of fn made
    r_slept,         \* the arguments of time.sleep, in order
    r_pos,           \* position inside retry
    r_result         \* how retry ended: returned / raised, and of which call

retryVars == <<r_retries, r_base_delay, r_fn, r_attempt, r_calls, r_slept,
               r_pos, r_result>>

\* ipcatClient.py: one call IPCatalogClient.request
VARIABLES
    c_token_manager, \* self.token_manager is set
    c_token,         \* generation of the token the token manager holds
    c_headers,       \* generation of the token in the local headers
    c_attempt,       \* loop variable attempt
    c_refreshes,     \* calls of token_manager._refresh_token made
    c_requests,      \* the requests sent: token used and status answered
    c_pos,           \* position inside request
    c_result         \* how request ended

clientVars == <<c_token_manager, c_token, c_headers, c_attempt, c_refreshes,
                c_requests, c_pos, c_result>>

\* unifiedpoliciy.py: one search of UnifiedPolicyEngine.query
VARIABLES
    s_regions,       \* the regions redis holds for (chip, version, mpu)
    s_query,         \* the arguments address, region_number, profile, stage
    s_pos,           \* position inside query
    s_result         \* how the search ended, and the regions returned

searchVars == <<s_regions, s_query, s_pos, s_result>>

\* service.py: AsyncRAGService, its session and the running answer()
VARIABLES
    a_session,       \* self.session: project, version
    a_query,         \* what the extraction finds in user_query
    a_local,         \* locals project, version, clarification
    a_pos,           \* position inside answer
    a_turns,         \* calls of answer made
    a_retrievals,    \* route.retrieve_async calls of the latest answer
    a_llm_calls,     \* submit_prompt_async calls of the latest answer
    a_answer,        \* what the latest answer returned
    a_session0       \* self.session when the latest answer was called

serviceVars == <<a_session, a_query, a_local, a_pos, a_turns, a_retrievals,
                 a_llm_calls, a_answer, a_session0>>

\* state_machine.py: ingest_single_xml on one file, over PostgresDriver
VARIABLES
    m_progress,      \* the ledger row of the file (or ABSENT)
    m_unique,        \* policy_chunks has the unique index ON CONFLICT needs
    m_rows,          \* chunk_index of the rows of policy_chunks
    m_linked,        \* chunk_index of the rows whose weaviate_id is set
    m_vectors,       \* chunk_index of the vectors in Weaviate
    m_last_chunk,    \* local last_chunk
    m_idx,           \* chunk_index of the chunk the loop is at
    m_chunk_id,      \* local chunk_id (NoId for None)
    m_pos            \* position inside ingest_single_xml

smVars == <<m_progress, m_unique, m_rows, m_linked, m_vectors, m_last_chunk,
            m_idx, m_chunk_id, m_pos>>

\* unifiedpoliciy.py: the interval trees UnifiedPolicyEngine caches
VARIABLES
    t_redis,         \* the regions redis holds for the scope (chip, version, mpu)
    t_tree_cache,    \* self._tree_cache[(chip, version, mpu)], if loaded
    t_address,       \* argument address of the latest query
    t_pos,           \* position inside query / _search_by_address
    t_result         \* the regions the latest query returned

treeVars == <<t_redis, t_tree_cache, t_address, t_pos, t_result>>

\* rag_api.py: the routers over table policy_chunks
VARIABLES
    api_rows,        \* the rows of table policy_chunks of the project
    api_req,         \* the QueryRequest of the latest call
    api_result,      \* the rows the statement of the latest call returned,
                     \* in order
    api_pos          \* "idle", or the router that has returned

apiVars == <<api_rows, api_req, api_result, api_pos>>

\* ingestion.py: one <PRTn> node applied twice, its domain lists reordered
VARIABLES
    h_nodes,         \* the node as first applied and as applied again
    h_row,           \* xml_hash and rdomains, wdomains of the active row
    h_pos,           \* next call: "first", "again", or "end"
    h_outcome        \* how the latest ingest_prtn ended

hashVars == <<h_nodes, h_row, h_pos, h_outcome>>

\* ipcatClient.py: one TokenManager used by several threads
VARIABLES
    k_lock,          \* the thread that holds self._lock, or "none"
    k_token,         \* self._token: generation of the token, 0 for None
    k_fresh,         \* now < self._expiry - 60
    k_pc,            \* position of each thread
    k_calls          \* get_token calls and forced refreshes so far

tokenVars == <<k_lock, k_token, k_fresh, k_pc, k_calls>>

\* orchestrator_neww.py: get_policy_by_mpu for one (chip, version, mpu)
VARIABLES
    b_provider,      \* the policy ids whose XML holds regions of the mpu
    b_bloom,         \* bloom filter holds "{chip_id}:{version}"
    b_index,         \* redis key POLICY_INDEX_KEY: present, and its ids
    b_xml,           \* policy ids whose POLICY_XML_KEY is in redis
    b_mpu,           \* policy ids whose MPU_KEY is in redis
    b_todo,          \* of each task: local policies (line 51), then the
                     \* policy ids the loop has still to visit
    b_pos,           \* of each task: position inside get_policy_by_mpu
    b_result,        \* of each task: how its latest call ended
    b_lookups        \* calls so far

mpuVars == <<b_provider, b_bloom, b_index, b_xml, b_mpu, b_todo, b_pos,
             b_result, b_lookups>>

\* the components added to the ingestion models
laterVars ==
    <<retryVars, clientVars, searchVars, serviceVars, smVars, treeVars,
      apiVars, hashVars, tokenVars, mpuVars>>

\* the state of the other components
otherThanStore == <<ledgerVars, queryVars, orchVars, laterVars>>

\* what the statements of ingest_prtn never touch
notApply == <<docVars, otherThanStore>>

\* what a run of ingest_one_file never touches
notLedger == <<applyVars, docVars, queryVars, orchVars, laterVars>>

\* what a query never touches
notQuery == <<applyVars, docVars, ledgerVars, orchVars, laterVars>>

\* what the orchestrator never touches
notOrch == <<applyVars, docVars, ledgerVars, queryVars, laterVars>>

\* the ingestion, query and orchestrator state
earlierVars == <<applyVars, docVars, ledgerVars, queryVars, orchVars>>

\* what retry never touches
notRetry ==
    <<earlierVars, clientVars, searchVars, serviceVars, smVars, treeVars,
      apiVars, hashVars, tokenVars, mpuVars>>

\* what IPCatalogClient.request never touches
notClient ==
    <<earlierVars, retryVars, searchVars, serviceVars, smVars, treeVars,
      apiVars, hashVars, tokenVars, mpuVars>>

\* what a search never touches
notSearch ==
    <<earlierVars, retryVars, clientVars, serviceVars, smVars, treeVars,
      apiVars, hashVars, tokenVars, mpuVars>>

\* what answer() never touches
notService ==
    <<earlierVars, retryVars, clientVars, searchVars, smVars, treeVars,
      apiVars, hashVars, tokenVars, mpuVars>>

\* what ingest_single_xml never touches
notSm ==
    <<earlierVars, retryVars, clientVars, searchVars, serviceVars,
      treeVars, apiVars, hashVars, tokenVars, mpuVars>>

\* what the tree cache never touches
notTree ==
    <<earlierVars, retryVars, clientVars, searchVars, serviceVars,
      smVars, apiVars, hashVars, tokenVars, mpuVars>>

\* what the routers never touch
notApi ==
    <<earlierVars, retryVars, clientVars, searchVars, serviceVars,
      smVars, treeVars, hashVars, tokenVars, mpuVars>>

\* what the two applies of the node never touch
notHash ==
    <<earlierVars, retryVars, clientVars, searchVars, serviceVars,
      smVars, treeVars, apiVars, tokenVars, mpuVars>>

\* what the token manager never touches
notToken ==
    <<earlierVars, retryVars, clientVars, searchVars, serviceVars,
      smVars, treeVars, apiVars, hashVars, mpuVars>>

\* what get_policy_by_mpu never touches
notMpu ==
    <<earlierVars, retryVars, clientVars, searchVars, serviceVars,
      smVars, treeVars, apiVars, hashVars, tokenVars>>

vars == <<applyVars, docVars, otherThanStore>>

\* ------------------------------------------------------------------------
\* ingestion.py: pure helpers
\* ------------------------------------------------------------------------

\* etree.tostring(node): the serialised node carries every attribute
raw_xml(prtn) == <<prtn.rg_index, prtn.profile, prtn.start_hex>>

\* sha256(text): injective on the bounded domain
sha256(text) == <<"sha256", text>>

\* COALESCE(profile,'')
Coalesce(profile) == IF profile = NULL THEN "" ELSE profile

\* a look-up that compares the profile column without COALESCE
ActiveMatchNoCoalesce(row, rg_index, profile) ==
    /\ row.rg_index = rg_index
    /\ row.profile = profile
    /\ row.is_active

\* the WHERE clause of the look-up of ingest_prtn (project and mpu_name are
\* fixed: one project directory, one file)
ActiveMatch(row, rg_index, profile) ==
    /\ row.rg_index = rg_index
    /\ Coalesce(row.profile) = Coalesce(profile)
    /\ row.is_active

\* the identity the look-up distinguishes
IdentityOf(row) == <<row.rg_index, Coalesce(row.profile)>>

Identities == {<<r, Coalesce(p)>> : r \in RgIndexes, p \in Profiles}

ActiveRows(identity) ==
    {row \in policy_chunks : row.is_active /\ IdentityOf(row) = identity}

\* ------------------------------------------------------------------------
\* ingestion.py: ingest_prtn, statement by statement
\* ------------------------------------------------------------------------

ApplyInit ==
    /\ policy_chunks = {}
    /\ wv = {}
    /\ nextId = 0
    /\ pc = [p \in Procs |-> "idle"]
    /\ prtnOf = [p \in Procs |-> NoPrtn]
    /\ oldOf = [p \in Procs |-> NoId]
    /\ newOf = [p \in Procs |-> NoId]
    /\ outcome = [p \in Procs |-> "NONE"]
    /\ seen = {}

\* the frame of a finished ingest_prtn is gone
Return(p, how) ==
    /\ pc' = [pc EXCEPT ![p] = "idle"]
    /\ prtnOf' = [prtnOf EXCEPT ![p] = NoPrtn]
    /\ oldOf' = [oldOf EXCEPT ![p] = NoId]
    /\ newOf' = [newOf EXCEPT ![p] = NoId]
    /\ outcome' = [outcome EXCEPT ![p] = how]

\* the call ingest_prtn(project, mpu_name, prtn)
BeginApply(p, prtn) ==
    /\ \A q \in Procs : pc[q] = "idle"
    /\ nextId < MaxChunks
    /\ prtnOf' = [prtnOf EXCEPT ![p] = prtn]
    /\ pc' = [pc EXCEPT ![p] = "lookup"]
    /\ outcome' = [outcome EXCEPT ![p] = "RUNNING"]
    /\ UNCHANGED <<policy_chunks, wv, nextId, oldOf, newOf, seen>>

\* ingest_project (lines 284-286) over any files: ingest_prtn is called for
\* one parsed node after the other
StartApply(p) ==
    /\ \E prtn \in Prtns : BeginApply(p, prtn)
    /\ UNCHANGED notApply

\* two runs of main() side by side, each on its own file: a run calls
\* ingest_prtn whatever the other run is doing
ConcurrentApply(p) ==
    /\ pc[p] = "idle"
    /\ nextId < MaxConcurrentChunks
    /\ \E prtn \in Prtns : prtnOf' = [prtnOf EXCEPT ![p] = prtn]
    /\ pc' = [pc EXCEPT ![p] = "lookup"]
    /\ outcome' = [outcome EXCEPT ![p] = "RUNNING"]
    /\ UNCHANGED <<policy_chunks, wv, nextId, oldOf, newOf, seen>>
    /\ UNCHANGED notApply

\* lines 134-163: SELECT of the active row (fetchone: one of the hits), then
\* case A (no row), case B (same hash) or case C (supersede)
Lookup(p) ==
    /\ pc[p] = "lookup"
    /\ LET prtn == prtnOf[p]
           hits == {row \in policy_chunks :
                       ActiveMatch(row, prtn.rg_index, prtn.profile)}
       IN  IF hits = {}
           THEN /\ pc' = [pc EXCEPT ![p] = "insert"]
                /\ UNCHANGED <<prtnOf, oldOf, newOf, outcome>>
           ELSE \E row \in hits :
                   IF row.xml_hash = sha256(raw_xml(prtn))
                   THEN Return(p, "SKIPPED_NO_CHANGE")
                   ELSE /\ pc' = [pc EXCEPT ![p] = "deactivate"]
                        /\ oldOf' = [oldOf EXCEPT ![p] = row.chunk_id]
                        /\ UNCHANGED <<prtnOf, newOf, outcome>>
    /\ UNCHANGED <<policy_chunks, wv, nextId, seen>>
    /\ UNCHANGED notApply

\* lines 170-173: UPDATE policy_chunks SET is_active=false WHERE chunk_id=old
\* (pg.autocommit = True, line 39: the statement is its own transaction)
Deactivate(p) ==
    /\ pc[p] = "deactivate"
    /\ policy_chunks' =
          {IF row.chunk_id = oldOf[p]
              THEN [row EXCEPT !.is_active = FALSE] ELSE row
           : row \in policy_chunks}
    /\ pc' = [pc EXCEPT ![p] = "wvdelete"]
    /\ UNCHANGED <<wv, nextId, prtnOf, oldOf, newOf, outcome, seen>>
    /\ UNCHANGED notApply

\* lines 86-91: delete_weaviate_vector; an exception is swallowed
DeleteWeaviateVector(p) ==
    /\ pc[p] = "wvdelete"
    /\ \/ wv' = wv \ {oldOf[p]}
       \/ wv' = wv
    /\ pc' = [pc EXCEPT ![p] = "insert"]
    /\ UNCHANGED <<policy_chunks, nextId, prtnOf, oldOf, newOf, outcome, seen>>
    /\ UNCHANGED notApply

\* an INSERT that leaves supersedes_chunk_id NULL
InsertRowNoSupersedes(p) ==
    /\ pc[p] = "insert"
    /\ LET prtn == prtnOf[p]
           row == [chunk_id |-> nextId + 1,
                   rg_index |-> prtn.rg_index,
                   profile |-> prtn.profile,
                   start_hex |-> prtn.start_hex,
                   xml_hash |-> sha256(raw_xml(prtn)),
                   is_active |-> TRUE,
                   supersedes_chunk_id |-> NoId]
       IN  policy_chunks' = policy_chunks \cup {row}
    /\ nextId' = nextId + 1
    /\ newOf' = [newOf EXCEPT ![p] = nextId + 1]
    /\ pc' = [pc EXCEPT ![p] = "wvinsert"]
    /\ UNCHANGED <<wv, prtnOf, oldOf, outcome, seen>>
    /\ UNCHANGED notApply

\* lines 151/177 and 192-241: new_chunk_id = uuid4(), then the INSERT of
\* insert_new_policy with is_active = true
InsertRow(p) ==
    /\ pc[p] = "insert"
    /\ LET prtn == prtnOf[p]
           row == [chunk_id |-> nextId + 1,
                   rg_index |-> prtn.rg_index,
                   profile |-> prtn.profile,
                   start_hex |-> prtn.start_hex,
                   xml_hash |-> sha256(raw_xml(prtn)),
                   is_active |-> TRUE,
                   supersedes_chunk_id |-> oldOf[p]]
       IN  policy_chunks' = policy_chunks \cup {row}
    /\ nextId' = nextId + 1
    /\ newOf' = [newOf EXCEPT ![p] = nextId + 1]
    /\ pc' = [pc EXCEPT ![p] = "wvinsert"]
    /\ UNCHANGED <<wv, prtnOf, oldOf, outcome, seen>>
    /\ UNCHANGED notApply

\* lines 254-263: insert_weaviate_vector under the row's own id
InsertWeaviateVector(p) ==
    /\ pc[p] = "wvinsert"
    /\ wv' = wv \cup {newOf[p]}
    /\ Return(p, IF oldOf[p] = NoId THEN "INSERTED_NEW" ELSE "SUPERSEDED")
    /\ UNCHANGED <<policy_chunks, nextId, seen>>
    /\ UNCHANGED notApply

\* a statement raises (SELECT, UPDATE, INSERT, Weaviate create): the
\* exception leaves ingest_prtn; nothing is rolled back
Raise(p) ==
    /\ pc[p] \in {"lookup", "deactivate", "insert", "wvinsert"}
    /\ Return(p, "RAISED")
    /\ UNCHANGED <<policy_chunks, wv, nextId, seen>>
    /\ UNCHANGED notApply

\* p has decided on case C for this identity and has not returned yet
Superseding(p, identity) ==
    /\ pc[p] \in {"deactivate", "wvdelete", "insert", "wvinsert"}
    /\ oldOf[p] # NoId
    /\ <<prtnOf[p].rg_index, Coalesce(prtnOf[p].profile)>> = identity

\* rag_api.py route_exact / compare_projects: another connection selects the
\* rows with is_active = true while a supersession of the identity runs
ReadActive(identity) ==
    /\ \E p \in Procs : Superseding(p, identity)
    /\ seen' = {Cardinality(ActiveRows(identity))}
    /\ UNCHANGED <<policy_chunks, wv, nextId, pc, prtnOf, oldOf, newOf, outcome>>
    /\ UNCHANGED notApply

ApplyNext ==
    \/ \E p \in Pipelines : StartApply(p)
    \/ \E p \in Procs :
        \/ Lookup(p)
        \/ Deactivate(p)
        \/ DeleteWeaviateVector(p)
        \/ InsertRow(p)
        \/ InsertWeaviateVector(p)
        \/ Raise(p)
    \/ \E identity \in Identities : ReadActive(identity)

ConcurrentNext ==
    \E p \in Procs :
        \/ ConcurrentApply(p)
        \/ Lookup(p)
        \/ Deactivate(p)
        \/ DeleteWeaviateVector(p)
        \/ InsertRow(p)
        \/ InsertWeaviateVector(p)
        \/ Raise(p)

\* ------------------------------------------------------------------------
\* ingestion.py: ingest_project / main over one policy file, pass after pass
\* ------------------------------------------------------------------------

Docs == UNION {[1..n -> Prtns] : n \in 1..MaxDocLen}

DocFrozen ==
    /\ doc = <<>>
    /\ docPos = 0
    /\ passNo = 0
    /\ snap = {}

DocInit ==
    /\ doc \in Docs
    /\ docPos = 0
    /\ passNo = 0
    /\ snap = {}

\* lines 284-286: for prtn_node in root.findall(".//PRTn"): ingest_prtn(...)
ApplyNode(p) ==
    /\ outcome[p] # "RAISED"
    /\ passNo < MaxPasses
    /\ docPos < Len(doc)
    /\ BeginApply(p, doc[docPos + 1])
    /\ docPos' = docPos + 1
    /\ UNCHANGED <<doc, passNo, snap, otherThanStore>>

\* lines 293-298: every node of the file went through ingest_prtn
EndPass(p) ==
    /\ pc[p] = "idle"
    /\ outcome[p] # "RAISED"
    /\ docPos = Len(doc)
    /\ passNo < MaxPasses
    /\ passNo' = passNo + 1
    /\ snap' = policy_chunks
    /\ docPos' = 0
    /\ UNCHANGED <<doc, applyVars, otherThanStore>>

\* an exception of ingest_prtn is caught nowhere: it ends ingest_project and
\* main; the next run starts at the first node again
AbortPass(p) ==
    /\ pc[p] = "idle"
    /\ outcome[p] = "RAISED"
    /\ outcome' = [outcome EXCEPT ![p] = "NONE"]
    /\ docPos' = 0
    /\ passNo' = 0
    /\ snap' = {}
    /\ UNCHANGED <<policy_chunks, wv, nextId, pc, prtnOf, oldOf, newOf, seen>>
    /\ UNCHANGED <<doc, otherThanStore>>

DocNext ==
    \/ \E p \in Pipelines :
        \/ ApplyNode(p)
        \/ EndPass(p)
        \/ AbortPass(p)
    \/ \E p \in Procs :
        \/ Lookup(p)
        \/ Deactivate(p)
        \/ DeleteWeaviateVector(p)
        \/ InsertRow(p)
        \/ InsertWeaviateVector(p)
        \/ Raise(p)

\* ------------------------------------------------------------------------
\* retries.py: IngestionProgressRepo, retry, ingest_one_file, ingest_chunks
\* ------------------------------------------------------------------------

\* retry(fn, retries=3, ...) and retries=3 of ingest_chunks
Retries == 3

\* upsert(..., last_chunk=-1, ...) and last_chunk_index INT DEFAULT -1
DefaultLastChunk == -1

AbsentRow == [status |-> "ABSENT", last_chunk_index |-> DefaultLastChunk,
              error |-> NULL]

\* IngestionProgressRepo.upsert: INSERT ... ON CONFLICT (xml_path) DO UPDATE
\* SET status, last_chunk_index and error to the values passed
upsert(status, last, error) ==
    [status |-> status, last_chunk_index |-> last, error |-> error]

\* IngestionProgressRepo.update_chunk: UPDATE ... SET last_chunk_index
update_chunk(row, chunk_index) ==
    IF row.status = "ABSENT" THEN row
    ELSE [row EXCEPT !.last_chunk_index = chunk_index]

LedgerInit ==
    /\ ingestion_progress = AbsentRow
    /\ rpc = "idle"
    /\ idx = 0
    /\ last_chunk = DefaultLastChunk
    /\ attempt = 0
    /\ pgAttempt = 0
    /\ wvAttempt = 0
    /\ pgChunks = {}
    /\ wvChunks = {}
    /\ spy = {}
    /\ rowAtStart = AbsentRow
    /\ lastGood = DefaultLastChunk

\* the locals of a finished run are gone
LeaveRun ==
    /\ rpc' = "idle"
    /\ idx' = 0
    /\ last_chunk' = DefaultLastChunk
    /\ attempt' = 0
    /\ pgAttempt' = 0
    /\ wvAttempt' = 0

\* ingest_all, line 77: ingest_one_file(xml_path, pg, weaviate, progress)
StartRun ==
    /\ rpc = "idle"
    /\ rpc' = "get"
    /\ spy' = {}
    /\ rowAtStart' = ingestion_progress
    /\ UNCHANGED <<ingestion_progress, idx, last_chunk, attempt, pgAttempt,
                   wvAttempt, pgChunks, wvChunks, lastGood>>
    /\ UNCHANGED notLedger

\* lines 85-93: row = progress.get(xml_path); DONE returns at once
GetRow ==
    /\ rpc = "get"
    /\ IF ingestion_progress.status = "DONE"
       THEN LeaveRun
       ELSE /\ rpc' = IF ingestion_progress.status = "ABSENT"
                      THEN "pending" ELSE "in_progress"
            /\ UNCHANGED <<idx, last_chunk, attempt, pgAttempt, wvAttempt>>
    /\ UNCHANGED <<ingestion_progress, pgChunks, wvChunks, spy, rowAtStart,
                   lastGood>>
    /\ UNCHANGED notLedger

\* line 93: progress.upsert(xml_path, "PENDING")
UpsertPending ==
    /\ rpc = "pending"
    /\ ingestion_progress' = upsert("PENDING", DefaultLastChunk, NULL)
    /\ rpc' = "in_progress"
    /\ UNCHANGED <<idx, last_chunk, attempt, pgAttempt, wvAttempt, pgChunks,
                   wvChunks, spy, rowAtStart, lastGood>>
    /\ UNCHANGED notLedger

\* line 95: progress.upsert(xml_path, "IN_PROGRESS")
UpsertInProgress ==
    /\ rpc = "in_progress"
    /\ ingestion_progress' = upsert("IN_PROGRESS", DefaultLastChunk, NULL)
    /\ rpc' = "chunks"
    /\ UNCHANGED <<idx, last_chunk, attempt, pgAttempt, wvAttempt, pgChunks,
                   wvChunks, spy, rowAtStart, lastGood>>
    /\ UNCHANGED notLedger

\* lines 107-110: chunks = parse...; row = progress.get; last_chunk = row[1]
ReadLastChunk ==
    /\ rpc = "chunks"
    /\ last_chunk' = IF ingestion_progress.status = "ABSENT"
                     THEN DefaultLastChunk
                     ELSE ingestion_progress.last_chunk_index
    /\ idx' = 0
    /\ rpc' = "loop"
    /\ UNCHANGED <<ingestion_progress, attempt, pgAttempt, wvAttempt, pgChunks,
                   wvChunks, spy, rowAtStart, lastGood>>
    /\ UNCHANGED notLedger

\* lines 112-119: the head of the loop; idx <= last_chunk is skipped, any
\* other chunk goes to retry(lambda: ingest_single_chunk(...), retries=3)
LoopStep ==
    /\ rpc = "loop"
    /\ IF idx >= NumChunks
       THEN /\ rpc' = "done"
            /\ UNCHANGED <<idx, attempt, pgAttempt, spy>>
       ELSE IF idx <= last_chunk
       THEN /\ idx' = idx + 1
            /\ UNCHANGED <<rpc, attempt, pgAttempt, spy>>
       ELSE /\ rpc' = "pg"
            /\ attempt' = 1
            /\ pgAttempt' = 1
            /\ spy' = spy \cup {idx}
            /\ UNCHANGED idx
    /\ UNCHANGED <<ingestion_progress, last_chunk, wvAttempt, pgChunks,
                   wvChunks, rowAtStart, lastGood>>
    /\ UNCHANGED notLedger

\* retry, lines 5-14, around ingest_single_chunk: the attempt raised; the
\* last attempt re-raises into the except of ingest_one_file
AttemptFailed ==
    IF attempt < Retries
    THEN /\ attempt' = attempt + 1
         /\ pgAttempt' = 1
         /\ wvAttempt' = 0
         /\ rpc' = "pg"
    ELSE /\ rpc' = "failed_chunk"
         /\ UNCHANGED <<attempt, pgAttempt, wvAttempt>>

\* lines 127-130: pg.insert_chunk(chunk) returns
PgInsert ==
    /\ rpc = "pg"
    /\ pgChunks' = pgChunks \cup {idx}
    /\ rpc' = "wv"
    /\ wvAttempt' = 1
    /\ UNCHANGED <<ingestion_progress, idx, last_chunk, attempt, pgAttempt,
                   wvChunks, spy, rowAtStart, lastGood>>
    /\ UNCHANGED notLedger

\* lines 127-130: pg.insert_chunk(chunk) raises inside retry
PgInsertRaises ==
    /\ rpc = "pg"
    /\ IF pgAttempt < Retries
       THEN /\ pgAttempt' = pgAttempt + 1
            /\ UNCHANGED <<rpc, attempt, wvAttempt>>
       ELSE AttemptFailed
    /\ UNCHANGED <<ingestion_progress, idx, last_chunk, pgChunks, wvChunks,
                   spy, rowAtStart, lastGood>>
    /\ UNCHANGED notLedger

\* lines 133-140: wv.insert_vector(...) returns
WvInsert ==
    /\ rpc = "wv"
    /\ wvChunks' = wvChunks \cup {idx}
    /\ rpc' = "advance"
    /\ UNCHANGED <<ingestion_progress, idx, last_chunk, attempt, pgAttempt,
                   wvAttempt, pgChunks, spy, rowAtStart, lastGood>>
    /\ UNCHANGED notLedger

\* lines 133-140: wv.insert_vector(...) raises inside retry
WvInsertRaises ==
    /\ rpc = "wv"
    /\ IF wvAttempt < Retries
       THEN /\ wvAttempt' = wvAttempt + 1
            /\ UNCHANGED <<rpc, attempt, pgAttempt>>
       ELSE AttemptFailed
    /\ UNCHANGED <<ingestion_progress, idx, last_chunk, pgChunks, wvChunks,
                   spy, rowAtStart, lastGood>>
    /\ UNCHANGED notLedger

\* line 124: progress.update_chunk(xml_path, idx)
UpdateChunk ==
    /\ rpc = "advance"
    /\ ingestion_progress' = update_chunk(ingestion_progress, idx)
    /\ lastGood' = idx
    /\ idx' = idx + 1
    /\ rpc' = "loop"
    /\ UNCHANGED <<last_chunk, attempt, pgAttempt, wvAttempt, pgChunks,
                   wvChunks, spy, rowAtStart>>
    /\ UNCHANGED notLedger

\* line 99: progress.upsert(xml_path, "DONE")
UpsertDone ==
    /\ rpc = "done"
    /\ ingestion_progress' = upsert("DONE", DefaultLastChunk, NULL)
    /\ LeaveRun
    /\ UNCHANGED <<pgChunks, wvChunks, spy, rowAtStart, lastGood>>
    /\ UNCHANGED notLedger

\* lines 102-104: except Exception as e:
\*     progress.upsert(xml_path, "FAILED", error=str(e))
UpsertFailed ==
    /\ rpc \in {"failed_chunk", "failed_ledger"}
    /\ ingestion_progress' =
          upsert("FAILED", DefaultLastChunk,
                 IF rpc = "failed_chunk" THEN "chunk insert failed"
                 ELSE "ledger statement failed")
    /\ LeaveRun
    /\ UNCHANGED <<pgChunks, wvChunks, spy, rowAtStart, lastGood>>
    /\ UNCHANGED notLedger

\* a ledger statement inside the try raises (progress.get of ingest_chunks,
\* update_chunk, the upsert of DONE at line 99): the except of
\* ingest_one_file takes over
LedgerRaises ==
    /\ rpc \in {"chunks", "advance", "done"}
    /\ rpc' = "failed_ledger"
    /\ UNCHANGED <<ingestion_progress, idx, last_chunk, attempt, pgAttempt,
                   wvAttempt, pgChunks, wvChunks, spy, rowAtStart, lastGood>>
    /\ UNCHANGED notLedger

\* lines 85, 93, 95 and 104: a ledger statement outside the try (or inside
\* the except) raises: the exception leaves ingest_one_file and ends the
\* run; the ledger row stays as written
LedgerRaisesOutsideTry ==
    /\ rpc \in {"get", "pending", "in_progress", "failed_chunk",
                "failed_ledger"}
    /\ LeaveRun
    /\ UNCHANGED <<ingestion_progress, pgChunks, wvChunks, spy, rowAtStart,
                   lastGood>>
    /\ UNCHANGED notLedger

\* the process dies, or a statement outside the try raises: the run stops
\* where it is and the ledger row stays as written
Crash ==
    /\ rpc # "idle"
    /\ LeaveRun
    /\ UNCHANGED <<ingestion_progress, pgChunks, wvChunks, spy, rowAtStart,
                   lastGood>>
    /\ UNCHANGED notLedger

LedgerNext ==
    \/ StartRun
    \/ LedgerRaisesOutsideTry
    \/ GetRow
    \/ UpsertPending
    \/ UpsertInProgress
    \/ ReadLastChunk
    \/ LoopStep
    \/ PgInsert
    \/ PgInsertRaises
    \/ WvInsert
    \/ WvInsertRaises
    \/ UpdateChunk
    \/ UpsertDone
    \/ UpsertFailed
    \/ LedgerRaises
    \/ Crash

\* ------------------------------------------------------------------------
\* sql-explain.py: SQLQueryBuilder.build and the statement it builds
\* ------------------------------------------------------------------------

\* with_address(start, end): None
NoAddr == -1

Addrs == 0..MaxAddr
MpuNames == {"m1", "m2"}
QueryRgIndexes == {0, 1}

\* the columns of BASE_SELECT that the queries read (one project, one
\* version in the table)
XmlRows ==
    [mpu_name : MpuNames, rg_index : QueryRgIndexes,
     addr_start : Addrs, addr_end : Addrs]

\* the subsets of S with at most n elements
RECURSIVE SubsetsUpTo(_, _)
SubsetsUpTo(S, n) ==
    IF n = 0 THEN {{}}
    ELSE LET smaller == SubsetsUpTo(S, n - 1)
         IN  smaller \cup {t \cup {x} : t \in smaller, x \in S}

Tables == SubsetsUpTo(XmlRows, MaxTableRows)

NoFilters == [mpu_name |-> NULL, addr_start |-> NoAddr, addr_end |-> NoAddr]

GREATEST(a, b) == IF a >= b THEN a ELSE b
LEAST(a, b) == IF a <= b THEN a ELSE b

\* _build_base_where, lines 104-126: the clauses and their parameters
BaseParams(f) == IF f.mpu_name # NULL THEN <<f.mpu_name>> ELSE <<>>

\* the rows of the sub-select "{base}" under its parameters
BaseRows(table, base_params) ==
    {row \in table :
        Len(base_params) = 0 \/ row.mpu_name = base_params[1]}

\* build, lines 74-85: the parameters of the point statement
PointParams(f) ==
    <<f.addr_start>> \o BaseParams(f) \o <<f.addr_start, f.addr_start>>

\* build, lines 88-97: the parameters of the range statement
RangeParams(f) ==
    <<f.addr_start, f.addr_end, f.addr_end, f.addr_start>>
        \o BaseParams(f) \o <<f.addr_end, f.addr_start>>

\* build, lines 68-100: which statement, with which parameters
build(f) ==
    IF f.addr_start # NoAddr /\ f.addr_end = NoAddr
    THEN [kind |-> "POINT", params |-> PointParams(f)]
    ELSE IF f.addr_start # NoAddr /\ f.addr_end # NoAddr
    THEN [kind |-> "RANGE", params |-> RangeParams(f)]
    ELSE [kind |-> "BASE", params |-> BaseParams(f)]

\* sql_latest.py, _apply_address_overlap, lines 51-67, and build, lines
\* 73-111, for filters without project, version and profile: no address
\* statement when addr_start is None; a point collapses to the range
\* addr..addr; the address of the select list goes first (line 89)
build_sql_latest(f) ==
    IF f.addr_start = NoAddr
    THEN [kind |-> "BASE", params |-> BaseParams(f)]
    ELSE [kind |-> "ADDRESS",
          params |-> <<f.addr_start>> \o BaseParams(f)
                       \o <<IF f.addr_end = NoAddr THEN f.addr_start
                            ELSE f.addr_end,
                            f.addr_start>>]

\* POINT_EXPLAIN_SELECT, lines 14-22, over one row of the sub-select
PointRow(row, params) ==
    [mpu_name |-> row.mpu_name, rg_index |-> row.rg_index,
     addr_start |-> row.addr_start, addr_end |-> row.addr_end,
     region_size |-> row.addr_end - row.addr_start,
     covers_address |->
        (row.addr_start <= params[1] /\ params[1] <= row.addr_end)]

\* RANGE_EXPLAIN_SELECT, lines 24-33, over one row of the sub-select
RangeRow(row, params) ==
    [mpu_name |-> row.mpu_name, rg_index |-> row.rg_index,
     addr_start |-> row.addr_start, addr_end |-> row.addr_end,
     overlap_start |-> GREATEST(row.addr_start, params[1]),
     overlap_end |-> LEAST(row.addr_end, params[2]),
     overlap_size |-> LEAST(row.addr_end, params[3])
                         - GREATEST(row.addr_start, params[4])]

\* lines 79-80 and 92-93: WHERE addr_start <= %s AND addr_end >= %s, bound
\* to the last two parameters
WhereAddress(row, params) ==
    /\ row.addr_start <= params[Len(params) - 1]
    /\ row.addr_end >= params[Len(params)]

\* line 81: ORDER BY region_size ASC, rg_index DESC
PointOrderKey(row) == <<row.region_size, 0 - row.rg_index>>

\* line 94: ORDER BY overlap_size DESC, rg_index DESC
RangeOrderKey(row) == <<0 - row.overlap_size, 0 - row.rg_index>>

KeyLess(k1, k2) == k1[1] < k2[1] \/ (k1[1] = k2[1] /\ k1[2] < k2[2])

\* the orders in which SQL may return the keyed rows: ascending by key, rows
\* of equal key in any order
RECURSIVE OrderBy(_)
OrderBy(keyed) ==
    IF keyed = {} THEN {<<>>}
    ELSE UNION {{<<x.row>> \o rest : rest \in OrderBy(keyed \ {x})} :
                  x \in {y \in keyed :
                           \A z \in keyed : ~KeyLess(z.key, y.key)}}

\* LIMIT 1
Limit1(rows) == IF Len(rows) = 0 THEN rows ELSE <<rows[1]>>

\* the sub-select of a statement: its base parameters lie between the
\* parameters of the select list and those of the WHERE clause
BaseOf(stmt) ==
    IF stmt.kind \in {"POINT", "ADDRESS"}
    THEN SubSeq(stmt.params, 2, Len(stmt.params) - 2)
    ELSE IF stmt.kind = "RANGE"
    THEN SubSeq(stmt.params, 5, Len(stmt.params) - 2)
    ELSE stmt.params

\* cursor.execute(sql, params) on the table: every answer SQL allows
Execute(table, stmt) ==
    LET base == BaseRows(table, BaseOf(stmt))
    IN  IF stmt.kind \in {"POINT", "ADDRESS"}
        THEN {Limit1(rows) : rows \in OrderBy(
                 {[key |-> PointOrderKey(PointRow(row, stmt.params)),
                   row |-> PointRow(row, stmt.params)] :
                  row \in {r \in base : WhereAddress(r, stmt.params)}})}
        ELSE IF stmt.kind = "RANGE"
        THEN OrderBy(
                 {[key |-> RangeOrderKey(RangeRow(row, stmt.params)),
                   row |-> RangeRow(row, stmt.params)] :
                  row \in {r \in base : WhereAddress(r, stmt.params)}})
        ELSE OrderBy({[key |-> <<0, 0>>, row |-> row] : row \in base})

QueryFrozen ==
    /\ xml_chunks = {}
    /\ filters = NoFilters
    /\ result = <<>>

QueryInit ==
    /\ xml_chunks \in Tables
    /\ filters = NoFilters
    /\ result = <<>>

\* a builder is made for one query (__init__: filters = {}); the with_*
\* calls fill the filters, build() makes the statement, the cursor runs it
RunQuery(f) ==
    /\ filters = NoFilters
    /\ result = <<>>
    /\ filters' = f
    /\ result' \in Execute(xml_chunks, build(f))
    /\ UNCHANGED xml_chunks

\* point address query: with_address(addr, None)
PointQuery ==
    /\ \E mpu \in MpuNames \cup {NULL}, addr \in Addrs :
        RunQuery([mpu_name |-> mpu, addr_start |-> addr, addr_end |-> NoAddr])
    /\ UNCHANGED notQuery

\* range address query: with_address(start, end)
RangeQuery ==
    /\ \E mpu \in MpuNames \cup {NULL}, start \in Addrs, end \in Addrs :
        RunQuery([mpu_name |-> mpu, addr_start |-> start, addr_end |-> end])
    /\ UNCHANGED notQuery

\* non-address query: with_address is not called
BaseQuery ==
    /\ \E mpu \in MpuNames :
        RunQuery([mpu_name |-> mpu, addr_start |-> NoAddr,
                  addr_end |-> NoAddr])
    /\ UNCHANGED notQuery

\* sql_latest.py: a builder is made with the filters of one query, build()
\* makes the statement, the cursor runs it
LatestQuery ==
    /\ filters = NoFilters
    /\ result = <<>>
    /\ \E f \in [mpu_name : MpuNames \cup {NULL},
                 addr_start : Addrs \cup {NoAddr},
                 addr_end : Addrs \cup {NoAddr}] :
          /\ filters' = f
          /\ result' \in Execute(xml_chunks, build_sql_latest(f))
    /\ UNCHANGED xml_chunks
    /\ UNCHANGED notQuery

QueryNext ==
    \/ PointQuery
    \/ RangeQuery
    \/ BaseQuery
    \/ LatestQuery

\* ------------------------------------------------------------------------
\* unifiedpoliciy.py: UnifiedPolicyEngine.query;
\* policyorchestrator.py: PolicyOrchestrator.ensure_ingested, _ingest_chip.
\* Coroutines of one event loop: a step runs from one await that suspends
\* to the next.
\* ------------------------------------------------------------------------

Callers == 1..NumCallers

OrchInit ==
    /\ done_key = FALSE
    /\ cpc = [c \in Callers |-> "idle"]
    /\ ingestions = 0

\* query(), line 24: await self.orchestrator.resolve_project(project)
CallQuery(c) ==
    /\ cpc[c] = "idle"
    /\ cpc' = [cpc EXCEPT ![c] = "resolve_project"]
    /\ UNCHANGED <<done_key, ingestions>>
    /\ UNCHANGED notOrch

\* line 24 and policyorchestrator.py lines 9-11: resolve_project returns
\* chip["id"] (then version is None: await resolve_latest_version, or the
\* version was given), or get_chip_by_name raises or the chip has no "id"
\* and query() ends with the exception
ResolveProject(c) ==
    /\ cpc[c] = "resolve_project"
    /\ \/ cpc' = [cpc EXCEPT ![c] = "resolve_version"]
       \/ cpc' = [cpc EXCEPT ![c] = "ensure"]
       \/ cpc' = [cpc EXCEPT ![c] = "raised"]
    /\ UNCHANGED <<done_key, ingestions>>
    /\ UNCHANGED notOrch

\* line 27 and policyorchestrator.py lines 15-21: resolve_latest_version
\* returns the latest published version, or raises (get_xpu_policies
\* raises, max() of no published policy, float() of the version)
ResolveVersion(c) ==
    /\ cpc[c] = "resolve_version"
    /\ \/ cpc' = [cpc EXCEPT ![c] = "ensure"]
       \/ cpc' = [cpc EXCEPT ![c] = "raised"]
    /\ UNCHANGED <<done_key, ingestions>>
    /\ UNCHANGED notOrch

\* ensure_ingested, lines 27-32: if self.redis.exists(done_key): return;
\* otherwise _ingest_chip starts and suspends in its first request
EnsureIngested(c) ==
    /\ cpc[c] = "ensure"
    /\ IF done_key
       THEN /\ cpc' = [cpc EXCEPT ![c] = "search"]
            /\ UNCHANGED ingestions
       ELSE /\ cpc' = [cpc EXCEPT ![c] = "ingesting"]
            /\ ingestions' = ingestions + 1
    /\ UNCHANGED done_key
    /\ UNCHANGED notOrch

\* _ingest_chip, lines 38-48: the export ends without having yielded an
\* element, _ingest_page has ingested nothing and _ingest_chip returns;
\* line 34: self.redis.set(done_key, 1, ex=3600)
IngestChipReturns(c) ==
    /\ cpc[c] = "ingesting"
    /\ done_key' = TRUE
    /\ cpc' = [cpc EXCEPT ![c] = "search"]
    /\ UNCHANGED ingestions
    /\ UNCHANGED notOrch

\* a request of _ingest_chip raises, or a page holds an element and line
\* 55 raises NameError (the module neither defines nor imports
\* ingest_single_mpu): ensure_ingested and query() end with the exception,
\* line 34 is not reached
IngestChipRaises(c) ==
    /\ cpc[c] = "ingesting"
    /\ cpc' = [cpc EXCEPT ![c] = "raised"]
    /\ UNCHANGED <<done_key, ingestions>>
    /\ UNCHANGED notOrch

\* query(), lines 31-41: _search_by_address / _search_by_region returns,
\* or query() raises (line 41: neither address nor region_number;
\* _search_by_region line 103: json is not imported)
Search(c) ==
    /\ cpc[c] = "search"
    /\ \/ cpc' = [cpc EXCEPT ![c] = "returned"]
       \/ cpc' = [cpc EXCEPT ![c] = "raised"]
    /\ UNCHANGED <<done_key, ingestions>>
    /\ UNCHANGED notOrch

\* ex=3600: redis drops the marker
ExpireDoneKey ==
    /\ done_key
    /\ done_key' = FALSE
    /\ UNCHANGED <<cpc, ingestions>>
    /\ UNCHANGED notOrch

OrchNext ==
    \/ \E c \in Callers :
        \/ CallQuery(c)
        \/ ResolveProject(c)
        \/ ResolveVersion(c)
        \/ EnsureIngested(c)
        \/ IngestChipReturns(c)
        \/ IngestChipRaises(c)
        \/ Search(c)
    \/ ExpireDoneKey

\* ------------------------------------------------------------------------
\* retries.py: retry(fn, retries=3, base_delay=1, label), lines 4-14
\* ------------------------------------------------------------------------

NoResult == [kind |-> "none", call |-> 0]

\* 2 ** n
RECURSIVE Pow2(_)
Pow2(n) == IF n = 0 THEN 1 ELSE 2 * Pow2(n - 1)

\* retry is not running
RetryFrozen ==
    /\ r_retries = 0
    /\ r_base_delay = 0
    /\ r_fn = <<>>
    /\ r_attempt = 0
    /\ r_calls = 0
    /\ r_slept = <<>>
    /\ r_pos = "off"
    /\ r_result = NoResult

\* the call retry(fn, retries, base_delay): fn is any function whose
\* successive calls return or raise
RetryInit ==
    /\ r_retries \in 0..MaxRetries
    /\ r_base_delay \in {1, 2}
    /\ r_fn \in [1..(MaxRetries + 1) -> {"ok", "err"}]
    /\ r_attempt = 0
    /\ r_calls = 0
    /\ r_slept = <<>>
    /\ r_pos = "for"
    /\ r_result = NoResult

\* line 5: for attempt in range(1, retries + 1); an exhausted range ends
\* the function, which returns None
ForAttempt ==
    /\ r_pos = "for"
    /\ IF r_attempt < r_retries
       THEN /\ r_attempt' = r_attempt + 1
            /\ r_pos' = "try"
            /\ UNCHANGED r_result
       ELSE /\ r_pos' = "end"
            /\ r_result' = [kind |-> "returned_none", call |-> 0]
            /\ UNCHANGED r_attempt
    /\ UNCHANGED <<r_retries, r_base_delay, r_fn, r_calls, r_slept>>
    /\ UNCHANGED notRetry

\* lines 6-7: return fn()
TryFn ==
    /\ r_pos = "try"
    /\ r_calls' = r_calls + 1
    /\ IF r_fn[r_calls + 1] = "ok"
       THEN /\ r_pos' = "end"
            /\ r_result' = [kind |-> "returned", call |-> r_calls + 1]
       ELSE /\ r_pos' = "except"
            /\ UNCHANGED r_result
    /\ UNCHANGED <<r_retries, r_base_delay, r_fn, r_attempt, r_slept>>
    /\ UNCHANGED notRetry

\* a handler that compares attempt with retries + 1
ExceptHandlerOneMore ==
    /\ r_pos = "except"
    /\ IF r_attempt = r_retries + 1
       THEN /\ r_pos' = "end"
            /\ r_result' = [kind |-> "raised", call |-> r_calls]
            /\ UNCHANGED r_slept
       ELSE /\ r_slept' = Append(r_slept, r_base_delay * Pow2(r_attempt - 1))
            /\ r_pos' = "for"
            /\ UNCHANGED r_result
    /\ UNCHANGED <<r_retries, r_base_delay, r_fn, r_attempt, r_calls>>
    /\ UNCHANGED notRetry

\* lines 8-14: except Exception as e: warning; if attempt == retries: raise;
\* time.sleep(base_delay * (2 ** (attempt - 1)))
ExceptHandler ==
    /\ r_pos = "except"
    /\ IF r_attempt = r_retries
       THEN /\ r_pos' = "end"
            /\ r_result' = [kind |-> "raised", call |-> r_calls]
            /\ UNCHANGED r_slept
       ELSE /\ r_slept' = Append(r_slept, r_base_delay * Pow2(r_attempt - 1))
            /\ r_pos' = "for"
            /\ UNCHANGED r_result
    /\ UNCHANGED <<r_retries, r_base_delay, r_fn, r_attempt, r_calls>>
    /\ UNCHANGED notRetry

RetryNext ==
    \/ ForAttempt
    \/ TryFn
    \/ ExceptHandler

\* ------------------------------------------------------------------------
\* ipcatClient.py: IPCatalogClient.request, lines 132-185
\* ------------------------------------------------------------------------

\* __init__: max_retries: int = 3
ClientMaxRetries == 3

\* what the server answers to one request: a status code, or the transport
\* fails ("exc": requests.RequestException)
Answers == {"200", "401", "403", "500", "exc"}

ClientFrozen ==
    /\ c_token_manager = FALSE
    /\ c_token = 0
    /\ c_headers = 0
    /\ c_attempt = 0
    /\ c_refreshes = 0
    /\ c_requests = <<>>
    /\ c_pos = "off"
    /\ c_result = "none"

\* request() is called on a client with or without a token manager
ClientInit ==
    /\ c_token_manager \in BOOLEAN
    /\ c_token = 0
    /\ c_headers = 0
    /\ c_attempt = 0
    /\ c_refreshes = 0
    /\ c_requests = <<>>
    /\ c_pos = "headers"
    /\ c_result = "none"

\* lines 141-147: the headers are built once, before the loop and outside
\* the try. With a token manager get_token() (lines 50-58) returns the
\* token it holds, or calls _refresh_token(): the token is replaced, or
\* IPCatalogAuthError (no credentials, login refused) or
\* requests.RequestException (the login POST fails) leaves request.
\* Without one the headers carry self.token
BuildHeaders ==
    /\ c_pos = "headers"
    /\ IF c_token_manager
       THEN \/ /\ c_headers' = c_token
               /\ c_pos' = "for"
               /\ UNCHANGED <<c_token, c_refreshes, c_result>>
            \/ /\ c_refreshes' = c_refreshes + 1
               /\ c_token' = c_token + 1
               /\ c_headers' = c_token + 1
               /\ c_pos' = "for"
               /\ UNCHANGED c_result
            \/ /\ c_refreshes' = c_refreshes + 1
               /\ c_pos' = "end"
               /\ \E raised \in {"raised_auth", "raised_request"} :
                     c_result' = raised
               /\ UNCHANGED <<c_token, c_headers>>
       ELSE /\ c_headers' = c_token
            /\ c_pos' = "for"
            /\ UNCHANGED <<c_token, c_refreshes, c_result>>
    /\ UNCHANGED <<c_token_manager, c_attempt, c_requests>>
    /\ UNCHANGED notClient

\* line 149: for attempt in range(1, self.max_retries + 1); after the last
\* attempt the function body ends and request returns None
ClientFor ==
    /\ c_pos = "for"
    /\ IF c_attempt < ClientMaxRetries
       THEN /\ c_attempt' = c_attempt + 1
            /\ c_pos' = "send"
            /\ UNCHANGED c_result
       ELSE /\ c_pos' = "end"
            /\ c_result' = "returned_none"
            /\ UNCHANGED c_attempt
    /\ UNCHANGED <<c_token_manager, c_token, c_headers, c_refreshes,
                   c_requests>>
    /\ UNCHANGED notClient

\* the request of lines 151-160 as sent: it carries the local headers
Sent(answer) == Append(c_requests, [token |-> c_headers, answer |-> answer])

\* lines 151-160 and 174-178: the server answers below 400
SendOk ==
    /\ c_pos = "send"
    /\ c_requests' = Sent("200")
    /\ c_pos' = "end"
    /\ c_result' = "returned"
    /\ UNCHANGED <<c_token_manager, c_token, c_headers, c_attempt,
                   c_refreshes>>
    /\ UNCHANGED notClient

\* lines 180-185: except (requests.RequestException,
\* IPCatalogRequestError): re-raised at the last attempt, else sleep and
\* loop
ExceptRequest ==
    IF c_attempt = ClientMaxRetries
    THEN /\ c_pos' = "end"
         /\ c_result' = "raised_request"
    ELSE /\ c_pos' = "for"
         /\ UNCHANGED c_result

\* lines 162-167: status 401 or 403; with a token manager
\* _refresh_token() and continue, else raise IPCatalogAuthError, which
\* the except clause of line 180 does not catch. _refresh_token (lines
\* 60-68) replaces the token, or raises IPCatalogAuthError, or its login
\* POST raises requests.RequestException, which line 180 catches
SendUnauthorized ==
    /\ c_pos = "send"
    /\ \E answer \in {"401", "403"} : c_requests' = Sent(answer)
    /\ IF c_token_manager
       THEN \/ /\ c_refreshes' = c_refreshes + 1
               /\ c_token' = c_token + 1
               /\ c_pos' = "for"
               /\ UNCHANGED c_result
            \/ /\ c_refreshes' = c_refreshes + 1
               /\ c_pos' = "end"
               /\ c_result' = "raised_auth"
               /\ UNCHANGED c_token
            \/ /\ c_refreshes' = c_refreshes + 1
               /\ ExceptRequest
               /\ UNCHANGED c_token
       ELSE /\ c_pos' = "end"
            /\ c_result' = "raised_auth"
            /\ UNCHANGED <<c_token, c_refreshes>>
    /\ UNCHANGED <<c_token_manager, c_headers, c_attempt>>
    /\ UNCHANGED notClient

\* lines 169-172 and 180-185: status >= 400 raises IPCatalogRequestError,
\* a transport failure raises requests.RequestException; both are caught:
\* re-raised at the last attempt, else sleep and loop
SendFails ==
    /\ c_pos = "send"
    /\ \E answer \in {"500", "exc"} : c_requests' = Sent(answer)
    /\ ExceptRequest
    /\ UNCHANGED <<c_token_manager, c_token, c_headers, c_attempt,
                   c_refreshes>>
    /\ UNCHANGED notClient

ClientNext ==
    \/ BuildHeaders
    \/ ClientFor
    \/ SendOk
    \/ SendUnauthorized
    \/ SendFails

\* ------------------------------------------------------------------------
\* unifiedpoliciy.py: UnifiedPolicyEngine.query lines 31-41,
\* _search_by_address lines 57-84, _search_by_region lines 88-110
\* ------------------------------------------------------------------------

SearchAddrs == {0, 1}
RegionNumbers == {0, 1}
ProfileNames == {"TZ", "NS"}
Stages == {"S1", "S2"}

\* a region as the ingestion stored it in redis
StoredRegions ==
    {r \in [region_number : RegionNumbers,
            profiles : (SUBSET ProfileNames) \ {{}},
            stage : Stages,
            start : SearchAddrs, end : SearchAddrs] : r.start <= r.end}

\* the arguments of query(): address or region_number (or neither), and
\* the filters profile and stage (None, or '' which is falsy too)
SearchQueries ==
    [address : SearchAddrs \cup {NoAddr},
     region_number : RegionNumbers \cup {NoAddr},
     profile : {NULL, "", "TZ", "tz", "NS"},
     stage : {NULL} \cup Stages]

\* str.upper() on the profile names
Upper(text) ==
    CASE text = "tz" -> "TZ"
      [] text = "ns" -> "NS"
      [] OTHER -> text

\* Python truth value of an optional string
Truthy(text) == text # NULL /\ text # ""

NoSearchResult == [kind |-> "none", rows |-> {}]

SearchFrozen ==
    /\ s_regions = {}
    /\ s_query = [address |-> NoAddr, region_number |-> NoAddr,
                  profile |-> NULL, stage |-> NULL]
    /\ s_pos = "off"
    /\ s_result = NoSearchResult

\* query() has passed ensure_ingested (line 29) for a known project
SearchInit ==
    /\ s_regions \in SubsetsUpTo(StoredRegions, MaxRegions)
    /\ s_query \in SearchQueries
    /\ s_pos = "dispatch"
    /\ s_result = NoSearchResult

\* tree[address] of the interval tree of the scope: the regions whose
\* interval covers the address
TreeAt(address) ==
    {r \in s_regions : r.start <= address /\ address <= r.end}

\* lines 31-34 and 57-84: if address is not None: _search_by_address
SearchByAddress ==
    /\ s_pos = "dispatch"
    /\ s_query.address # NoAddr
    /\ s_result' =
          [kind |-> "returned",
           rows |-> {r \in TreeAt(s_query.address) :
                       /\ ~(/\ Truthy(s_query.profile)
                            /\ Upper(s_query.profile) \notin r.profiles)
                       /\ ~(/\ Truthy(s_query.stage)
                            /\ r.stage # s_query.stage)}]
    /\ s_pos' = "end"
    /\ UNCHANGED <<s_regions, s_query>>
    /\ UNCHANGED notSearch

\* self.redis.keys("ipcat:region:{chip}:{version}:{mpu}:{region_number}:*")
RegionKeys(region_number) ==
    {r \in s_regions : r.region_number = region_number}

\* lines 36-39 and 88-110: elif region_number is not None:
\* _search_by_region; the module does not import json, so line 103
\* (json.loads) raises NameError for the first key
SearchByRegion ==
    /\ s_pos = "dispatch"
    /\ s_query.address = NoAddr
    /\ s_query.region_number # NoAddr
    /\ IF RegionKeys(s_query.region_number) = {}
       THEN s_result' = [kind |-> "returned", rows |-> {}]
       ELSE s_result' = [kind |-> "raised_NameError", rows |-> {}]
    /\ s_pos' = "end"
    /\ UNCHANGED <<s_regions, s_query>>
    /\ UNCHANGED notSearch

\* line 41: raise ValueError("Unsupported query type")
SearchUnsupported ==
    /\ s_pos = "dispatch"
    /\ s_query.address = NoAddr
    /\ s_query.region_number = NoAddr
    /\ s_result' = [kind |-> "raised_ValueError", rows |-> {}]
    /\ s_pos' = "end"
    /\ UNCHANGED <<s_regions, s_query>>
    /\ UNCHANGED notSearch

SearchNext ==
    \/ SearchByAddress
    \/ SearchByRegion
    \/ SearchUnsupported

\* ------------------------------------------------------------------------
\* service.py: AsyncRAGService.answer, lines 11-37;
\* context_resolver.py: ContextResolver.resolve, lines 35-106
\* ------------------------------------------------------------------------

ProjectNames == {"KAANAPALI", "LANAI"}
VersionNames == {"5.3", "6.0"}

\* _extract_project / _extract_version: the name found in the query, or None
Extractions ==
    [project : {NULL} \cup ProjectNames, version : {NULL} \cup VersionNames]

\* RAGSession(): project = None, version = None
EmptySession == [project |-> NULL, version |-> NULL]

NoLocals == [project |-> NULL, version |-> NULL, clarification |-> NULL]

\* Python: a or b
Or(a, b) == IF a # NULL /\ a # "" THEN a ELSE b

\* _clarify, lines 91-106: not project / not version, so None and the
\* empty string both count as missing
Clarify(project, version) ==
    CASE ~Truthy(project) /\ ~Truthy(version) ->
            "Please specify the project name and policy version."
      [] ~Truthy(project) -> "Please specify the project name."
      [] ~Truthy(version) ->
            "Please specify the policy version for project " \o project
                \o "."
      [] OTHER -> NULL

\* ContextResolver.resolve, lines 45-61: the names of the query, else
\* those of the prior context, and the clarification (service.py calls
\* resolve_context, not this method)
resolve(query, prior_context) ==
    LET project == Or(query.project, prior_context.project)
        version == Or(query.version, prior_context.version)
    IN  [project |-> project, version |-> version,
         clarification |-> Clarify(project, version)]

\* the clarification of resolve_context; test_context_resolution.py fixes
\* of its text only that it contains "Project name" when the project is
\* missing and "version" when the version is
ContextClarification(project, version) ==
    CASE ~Truthy(project) /\ ~Truthy(version) ->
            "Project name and version are required."
      [] ~Truthy(project) -> "Project name is required."
      [] ~Truthy(version) -> "Policy version is required."
      [] OTHER -> NULL

\* resolve_context(user_query, session), imported by service.py line 2:
\* the triples it may return. test_context_resolution.py fixes them for an
\* empty session: project and version of a query that names both, and no
\* clarification; else None, None and the clarification. For a session
\* that holds names no test fixes whether a query lacking one is answered
\* by a clarification or completed from the session: both are possible.
resolve_context(query, session) ==
    LET project == Or(query.project, session.project)
        version == Or(query.version, session.version)
    IN  IF Truthy(query.project) /\ Truthy(query.version)
        THEN {[project |-> query.project, version |-> query.version,
               clarification |-> NULL]}
        ELSE {[project |-> NULL, version |-> NULL,
               clarification |->
                   ContextClarification(query.project, query.version)]}
             \cup
             (IF Truthy(project) /\ Truthy(version)
              THEN {[project |-> project, version |-> version,
                     clarification |-> NULL]}
              ELSE {})

\* the texts answer can return as a clarification
Clarifications ==
    {ContextClarification(q.project, q.version) : q \in Extractions}
        \ {NULL}

ServiceFrozen ==
    /\ a_session = EmptySession
    /\ a_query = EmptySession
    /\ a_local = NoLocals
    /\ a_pos = "off"
    /\ a_turns = 0
    /\ a_retrievals = 0
    /\ a_llm_calls = 0
    /\ a_answer = "none"
    /\ a_session0 = EmptySession

\* AsyncRAGService(): self.session = RAGSession()
ServiceInit ==
    /\ a_session = EmptySession
    /\ a_query = EmptySession
    /\ a_local = NoLocals
    /\ a_pos = "idle"
    /\ a_turns = 0
    /\ a_retrievals = 0
    /\ a_llm_calls = 0
    /\ a_answer = "none"
    /\ a_session0 = EmptySession

\* the call answer(user_query)
CallAnswer ==
    /\ a_pos = "idle"
    /\ a_turns < MaxTurns
    /\ \E query \in Extractions : a_query' = query
    /\ a_turns' = a_turns + 1
    /\ a_pos' = "resolve"
    /\ a_local' = NoLocals
    /\ a_retrievals' = 0
    /\ a_llm_calls' = 0
    /\ a_answer' = "none"
    /\ a_session0' = a_session
    /\ UNCHANGED a_session
    /\ UNCHANGED notService

\* lines 12-14: project, version, clarification = resolve_context(...)
ResolveContext ==
    /\ a_pos = "resolve"
    /\ a_local' \in resolve_context(a_query, a_session)
    /\ a_pos' = "check"
    /\ UNCHANGED <<a_session, a_query, a_turns, a_retrievals, a_llm_calls,
                   a_answer, a_session0>>
    /\ UNCHANGED notService

\* lines 16-22: if clarification: return clarification; else the session
\* takes project and version and the query is routed
CheckClarification ==
    /\ a_pos = "check"
    /\ IF Truthy(a_local.clarification)
       THEN /\ a_answer' = a_local.clarification
            /\ a_pos' = "idle"
            /\ UNCHANGED a_session
       ELSE /\ a_session' = [project |-> a_local.project,
                             version |-> a_local.version]
            /\ a_pos' = "retrieve"
            /\ UNCHANGED a_answer
    /\ UNCHANGED <<a_query, a_local, a_turns, a_retrievals, a_llm_calls,
                   a_session0>>
    /\ UNCHANGED notService

\* lines 24-35: context = await route.retrieve_async(...); build_prompt
RetrieveAsync ==
    /\ a_pos = "retrieve"
    /\ a_retrievals' = a_retrievals + 1
    /\ a_pos' = "submit"
    /\ UNCHANGED <<a_session, a_query, a_local, a_turns, a_llm_calls,
                   a_answer, a_session0>>
    /\ UNCHANGED notService

\* line 24: the retrieval raises, and so does answer
RetrieveRaises ==
    /\ a_pos = "retrieve"
    /\ a_retrievals' = a_retrievals + 1
    /\ a_answer' = "raised"
    /\ a_pos' = "idle"
    /\ UNCHANGED <<a_session, a_query, a_local, a_turns, a_llm_calls,
                   a_session0>>
    /\ UNCHANGED notService

\* line 37: return await submit_prompt_async(prompt)
SubmitPrompt ==
    /\ a_pos = "submit"
    /\ a_llm_calls' = a_llm_calls + 1
    /\ a_answer' = "llm_response"
    /\ a_pos' = "idle"
    /\ UNCHANGED <<a_session, a_query, a_local, a_turns, a_retrievals,
                   a_session0>>
    /\ UNCHANGED notService

\* line 37: the LLM call raises, and so does answer
SubmitRaises ==
    /\ a_pos = "submit"
    /\ a_llm_calls' = a_llm_calls + 1
    /\ a_answer' = "raised"
    /\ a_pos' = "idle"
    /\ UNCHANGED <<a_session, a_query, a_local, a_turns, a_retrievals,
                   a_session0>>
    /\ UNCHANGED notService

ServiceNext ==
    \/ CallAnswer
    \/ ResolveContext
    \/ CheckClarification
    \/ RetrieveAsync
    \/ RetrieveRaises
    \/ SubmitPrompt
    \/ SubmitRaises

\* ------------------------------------------------------------------------
\* state_machine.py: ingest_single_xml, over postgres.py PostgresDriver
\* ------------------------------------------------------------------------

\* app.ingestion.xml_parser.iter_policy_chunks: the chunk_index values of
\* the chunks of the file, in order
PolicyChunks == 0 .. NumChunks - 1

\* the value of chunk_id that stands for the id of the row of chunk i
ChunkId(i) == i + 1

SmFrozen ==
    /\ m_progress = AbsentRow
    /\ m_unique = FALSE
    /\ m_rows = {}
    /\ m_linked = {}
    /\ m_vectors = {}
    /\ m_last_chunk = -1
    /\ m_idx = 0
    /\ m_chunk_id = NoId
    /\ m_pos = "off"

\* an empty database and an empty Weaviate; the table policy_chunks is
\* created outside the repository, with or without a unique index
SmInit ==
    /\ m_progress = AbsentRow
    /\ m_unique \in BOOLEAN
    /\ m_rows = {}
    /\ m_linked = {}
    /\ m_vectors = {}
    /\ m_last_chunk = -1
    /\ m_idx = 0
    /\ m_chunk_id = NoId
    /\ m_pos = "idle"

\* pg.get_ingestion_progress(xml_path): the row, or nothing
get_ingestion_progress ==
    IF m_progress.status = "ABSENT" THEN AbsentRow ELSE m_progress

\* pg.mark_ingestion_in_progress(xml_path): the row is IN_PROGRESS and keeps
\* its last_chunk_index (-1 for a new row)
mark_ingestion_in_progress(row) ==
    [row EXCEPT !.status = "IN_PROGRESS"]

\* pg.update_ingestion_progress(xml_path, chunk_index)
update_ingestion_progress(row, i) ==
    [row EXCEPT !.last_chunk_index = i]

\* pg.mark_ingestion_done(xml_path)
mark_ingestion_done(row) ==
    [row EXCEPT !.status = "DONE"]

\* lines 31-33: progress = pg.get_ingestion_progress(xml_path);
\* last_chunk = progress["last_chunk_index"] if progress else -1
SmGetProgress ==
    /\ m_pos = "idle"
    /\ m_last_chunk' = get_ingestion_progress.last_chunk_index
    /\ m_idx' = 0
    /\ m_chunk_id' = NoId
    /\ m_pos' = "mark"
    /\ UNCHANGED <<m_progress, m_unique, m_rows, m_linked, m_vectors>>
    /\ UNCHANGED notSm

\* line 41: pg.mark_ingestion_in_progress(xml_path)
SmMarkInProgress ==
    /\ m_pos = "mark"
    /\ m_progress' = mark_ingestion_in_progress(m_progress)
    /\ m_pos' = "for"
    /\ UNCHANGED <<m_unique, m_rows, m_linked, m_vectors, m_last_chunk,
                   m_idx, m_chunk_id>>
    /\ UNCHANGED notSm

\* lines 43-45: the next chunk of iter_policy_chunks; a chunk with
\* chunk_index <= last_chunk is skipped
SmForChunk ==
    /\ m_pos = "for"
    /\ IF m_idx \notin PolicyChunks
       THEN /\ m_pos' = "mark_done"
            /\ UNCHANGED m_idx
       ELSE IF m_idx <= m_last_chunk
       THEN /\ m_idx' = m_idx + 1
            /\ UNCHANGED m_pos
       ELSE /\ m_pos' = "insert_chunk"
            /\ UNCHANGED m_idx
    /\ UNCHANGED <<m_progress, m_unique, m_rows, m_linked, m_vectors,
                   m_last_chunk, m_chunk_id>>
    /\ UNCHANGED notSm

\* postgres.py lines 31-50 and state_machine.py line 48: the INSERT adds
\* a row and RETURNING gives its id
SmInsertChunk ==
    /\ m_pos = "insert_chunk"
    /\ ~(m_unique /\ m_idx \in m_rows)
    /\ m_rows' = m_rows \cup {m_idx}
    /\ m_chunk_id' = ChunkId(m_idx)
    /\ m_pos' = "insert_vector"
    /\ UNCHANGED <<m_progress, m_unique, m_linked, m_vectors, m_last_chunk,
                   m_idx>>
    /\ UNCHANGED notSm

\* postgres.py lines 43-50 and state_machine.py lines 48-50: the row is
\* there, ON CONFLICT DO NOTHING returns no row, insert_chunk returns None
\* and the loop continues with the next chunk
SmInsertChunkConflict ==
    /\ m_pos = "insert_chunk"
    /\ m_unique /\ m_idx \in m_rows
    /\ m_chunk_id' = NoId
    /\ m_idx' = m_idx + 1
    /\ m_pos' = "for"
    /\ UNCHANGED <<m_progress, m_unique, m_rows, m_linked, m_vectors,
                   m_last_chunk>>
    /\ UNCHANGED notSm

\* lines 53-65: wid = weaviate.insert_vector(...)
SmInsertVector ==
    /\ m_pos = "insert_vector"
    /\ m_vectors' = m_vectors \cup {m_idx}
    /\ m_pos' = "update_weaviate_id"
    /\ UNCHANGED <<m_progress, m_unique, m_rows, m_linked, m_last_chunk,
                   m_idx, m_chunk_id>>
    /\ UNCHANGED notSm

\* line 67 and postgres.py lines 52-57: pg.update_weaviate_id(chunk_id, wid)
SmUpdateWeaviateId ==
    /\ m_pos = "update_weaviate_id"
    /\ m_linked' = m_linked \cup {m_chunk_id - 1}
    /\ m_pos' = "update_progress"
    /\ UNCHANGED <<m_progress, m_unique, m_rows, m_vectors, m_last_chunk,
                   m_idx, m_chunk_id>>
    /\ UNCHANGED notSm

\* line 68: pg.update_ingestion_progress(xml_path, chunk["chunk_index"])
SmUpdateProgress ==
    /\ m_pos = "update_progress"
    /\ m_progress' = update_ingestion_progress(m_progress, m_idx)
    /\ m_idx' = m_idx + 1
    /\ m_pos' = "for"
    /\ UNCHANGED <<m_unique, m_rows, m_linked, m_vectors, m_last_chunk,
                   m_chunk_id>>
    /\ UNCHANGED notSm

\* line 70: pg.mark_ingestion_done(xml_path)
SmMarkDone ==
    /\ m_pos = "mark_done"
    /\ m_progress' = mark_ingestion_done(m_progress)
    /\ m_pos' = "idle"
    /\ UNCHANGED <<m_unique, m_rows, m_linked, m_vectors, m_last_chunk,
                   m_idx, m_chunk_id>>
    /\ UNCHANGED notSm

\* lines 31-70 have no try: a statement that raises, or the death of the
\* job, ends the run where it is; what was committed stays
SmRunStops ==
    /\ m_pos \notin {"idle", "off"}
    /\ m_pos' = "idle"
    /\ UNCHANGED <<m_progress, m_unique, m_rows, m_linked, m_vectors,
                   m_last_chunk, m_idx, m_chunk_id>>
    /\ UNCHANGED notSm

SmNext ==
    \/ SmGetProgress
    \/ SmMarkInProgress
    \/ SmForChunk
    \/ SmInsertChunk
    \/ SmInsertChunkConflict
    \/ SmInsertVector
    \/ SmUpdateWeaviateId
    \/ SmUpdateProgress
    \/ SmMarkDone
    \/ SmRunStops

\* ------------------------------------------------------------------------
\* unifiedpoliciy.py: UnifiedPolicyEngine._get_tree, lines 45-53, and
\* _search_by_address, lines 57-84, over a scope whose regions change
\* ------------------------------------------------------------------------

\* the regions of one profile and stage: they differ by number and interval
ScopeRegions ==
    {r \in StoredRegions : r.profiles = {"TZ"} /\ r.stage = "S1"}

\* the contents redis may hold for the scope
ScopeContents == SubsetsUpTo(ScopeRegions, MaxRegions)

\* line 11: self._tree_cache = {}
NoTree == [loaded |-> FALSE, regions |-> {}]

TreeFrozen ==
    /\ t_redis = {}
    /\ t_tree_cache = NoTree
    /\ t_address = NoAddr
    /\ t_pos = "off"
    /\ t_result = {}

\* a new engine (line 11) over a scope that has been ingested
TreeInit ==
    /\ t_redis \in ScopeContents
    /\ t_tree_cache = NoTree
    /\ t_address = NoAddr
    /\ t_pos = "idle"
    /\ t_result = {}

\* load_interval_tree(self.redis, chip, version, mpu): the tree of the
\* regions redis holds for the scope
load_interval_tree == [loaded |-> TRUE, regions |-> t_redis]

\* the active set of the scope changes: between two queries the regions
\* redis holds for the scope are replaced by others (the writer of the
\* region keys, ingest_single_mpu, is not part of the sources)
ActiveSetChanges ==
    /\ t_pos \in {"idle", "returned"}
    /\ \E contents \in ScopeContents :
          /\ contents # t_redis
          /\ t_redis' = contents
    /\ t_pos' = "idle"
    /\ UNCHANGED <<t_tree_cache, t_address, t_result>>
    /\ UNCHANGED notTree

\* lines 31-34: query(address=...) reaches _search_by_address
TreeQuery ==
    /\ t_pos \in {"idle", "returned"}
    /\ \E address \in SearchAddrs : t_address' = address
    /\ t_pos' = "get_tree"
    /\ UNCHANGED <<t_redis, t_tree_cache, t_result>>
    /\ UNCHANGED notTree

\* lines 45-53 and 67: the tree is loaded only if the key is not cached
GetTree ==
    /\ t_pos = "get_tree"
    /\ t_tree_cache' =
          IF ~t_tree_cache.loaded THEN load_interval_tree ELSE t_tree_cache
    /\ t_pos' = "search"
    /\ UNCHANGED <<t_redis, t_address, t_result>>
    /\ UNCHANGED notTree

\* lines 69-84: matches = tree[address], every match is returned (profile
\* and stage are None)
TreeSearchByAddress ==
    /\ t_pos = "search"
    /\ t_result' = {r \in t_tree_cache.regions :
                       r.start <= t_address /\ t_address <= r.end}
    /\ t_pos' = "returned"
    /\ UNCHANGED <<t_redis, t_tree_cache, t_address>>
    /\ UNCHANGED notTree

TreeNext ==
    \/ ActiveSetChanges
    \/ TreeQuery
    \/ GetTree
    \/ TreeSearchByAddress

\* ------------------------------------------------------------------------
\* rag_api.py: route_by_address, lines 115-139, and route_exact,
\* lines 241-263, over table policy_chunks of one project
\* ------------------------------------------------------------------------

PolicyVersions == {"1.0", "2.0"}

\* the columns of policy_chunks the two statements read
ApiRows ==
    {r \in [policy_version : PolicyVersions, is_active : BOOLEAN,
            mpu_name : MpuNames, rg_index : QueryRgIndexes,
            profile : ProfileNames,
            start_dec : SearchAddrs, end_dec : SearchAddrs] :
        r.start_dec <= r.end_dec}

\* QueryRequest: policy_version, mpu_name and profile are optional
ApiRequests ==
    {q \in [policy_version : PolicyVersions \cup {NULL},
            mpu_name : MpuNames \cup {NULL},
            profile : ProfileNames \cup {NULL},
            start : SearchAddrs, end : SearchAddrs] : q.start <= q.end}

NoRequest ==
    [policy_version |-> NULL, mpu_name |-> NULL, profile |-> NULL,
     start |-> 0, end |-> 0]

ApiFrozen ==
    /\ api_rows = {}
    /\ api_req = NoRequest
    /\ api_result = <<>>
    /\ api_pos = "off"

\* any small table, as supersessions have left it
ApiInit ==
    /\ api_rows \in SubsetsUpTo(ApiRows, MaxTableRows)
    /\ api_req = NoRequest
    /\ api_result = <<>>
    /\ api_pos = "idle"

\* lines 119-122 / 242-245: "policy_version = %s" if req.policy_version
\* else "is_active = true"
version_clause(req, row) ==
    IF req.policy_version # NULL
    THEN row.policy_version = req.policy_version
    ELSE row.is_active

\* the place of an MPU name in the collation of the column
MpuRank(mpu_name) == IF mpu_name = "m1" THEN 1 ELSE 2

\* lines 130 and 254: ORDER BY mpu_name, rg_index
ApiOrderKey(row) == <<MpuRank(row.mpu_name), row.rg_index>>

\* lines 115-139: SELECT * ... WHERE project = %s AND {version_clause}
\* AND NOT (end_dec < %s OR start_dec > %s) ORDER BY mpu_name, rg_index:
\* every order SQL allows
route_by_address(req) ==
    OrderBy({[key |-> ApiOrderKey(row), row |-> row] :
             row \in {r \in api_rows :
                        /\ version_clause(req, r)
                        /\ ~(r.end_dec < req.start \/ r.start_dec > req.end)}})

\* lines 241-263: WHERE project = %s AND {version_clause}
\* AND (%s IS NULL OR mpu_name = %s) AND (%s IS NULL OR profile = %s)
\* ORDER BY mpu_name, rg_index
route_exact(req) ==
    OrderBy({[key |-> ApiOrderKey(row), row |-> row] :
             row \in {r \in api_rows :
                        /\ version_clause(req, r)
                        /\ (req.mpu_name = NULL \/ r.mpu_name = req.mpu_name)
                        /\ (req.profile = NULL \/ r.profile = req.profile)}})

\* a request is routed to route_by_address
RouteByAddress ==
    /\ api_pos = "idle"
    /\ \E req \in ApiRequests :
          /\ api_req' = req
          /\ api_result' \in route_by_address(req)
    /\ api_pos' = "route_by_address"
    /\ UNCHANGED api_rows
    /\ UNCHANGED notApi

\* a request is routed to route_exact, which does not read address_range
RouteExact ==
    /\ api_pos = "idle"
    /\ \E req \in ApiRequests :
          /\ req.start = 0 /\ req.end = 0
          /\ api_req' = req
          /\ api_result' \in route_exact(req)
    /\ api_pos' = "route_exact"
    /\ UNCHANGED api_rows
    /\ UNCHANGED notApi

ApiNext ==
    \/ RouteByAddress
    \/ RouteExact

\* ------------------------------------------------------------------------
\* ingestion.py: parse_prtn, lines 106-120, and the hash comparison of
\* ingest_prtn, lines 129 and 156-163, for a node whose domain lists are
\* reordered
\* ------------------------------------------------------------------------

DomainNames == {"APPS", "MODEM", "TZ"}

\* the value of a rdomains / wdomains attribute: names separated by commas,
\* no name twice
DomainLists ==
    {s \in UNION {[1..n -> DomainNames] : n \in 0..MaxDomains} :
        \A i, j \in 1..Len(s) : s[i] = s[j] => i = j}

\* the attributes of a <PRTn> node that vary here
Nodes == [rdomains : DomainLists, wdomains : DomainLists]

\* t holds the entries of s in some order
Reordered(s, t) ==
    /\ Len(s) = Len(t)
    /\ {s[i] : i \in 1..Len(s)} = {t[i] : i \in 1..Len(t)}

\* lines 61-64: normalize_list splits at the commas and strips the
\* entries; it keeps their order
normalize_list(val) == val

\* line 119: etree.tostring(node): the attributes as the file has them
tostring(node) == <<"PRTn", node.rdomains, node.wdomains>>

\* lines 106-120: parse_prtn
parse_prtn(node) ==
    [rdomains |-> normalize_list(node.rdomains),
     wdomains |-> normalize_list(node.wdomains),
     raw_xml |-> tostring(node)]

NoRow == [xml_hash |-> sha256(<<>>), rdomains |-> <<>>, wdomains |-> <<>>]

HashFrozen ==
    /\ h_nodes = <<>>
    /\ h_row = NoRow
    /\ h_pos = "off"
    /\ h_outcome = "NONE"

\* a node, and the same node with its domain lists in another order
HashInit ==
    /\ h_nodes \in {<<a, b>> : a, b \in Nodes}
    /\ Reordered(h_nodes[1].rdomains, h_nodes[2].rdomains)
    /\ Reordered(h_nodes[1].wdomains, h_nodes[2].wdomains)
    /\ h_row = NoRow
    /\ h_pos = "first"
    /\ h_outcome = "NONE"

\* lines 129 and 150-154: the first ingest_prtn of the region inserts it
ApplyFirstNode ==
    /\ h_pos = "first"
    /\ LET prtn == parse_prtn(h_nodes[1])
       IN  h_row' = [xml_hash |-> sha256(prtn.raw_xml),
                     rdomains |-> prtn.rdomains,
                     wdomains |-> prtn.wdomains]
    /\ h_outcome' = "INSERTED_NEW"
    /\ h_pos' = "again"
    /\ UNCHANGED h_nodes
    /\ UNCHANGED notHash

\* lines 129 and 156-181: the next ingest_prtn of the region compares
\* old_hash with xml_hash: case B, or case C
ApplyNodeAgain ==
    /\ h_pos = "again"
    /\ LET prtn == parse_prtn(h_nodes[2])
           xml_hash == sha256(prtn.raw_xml)
       IN  IF h_row.xml_hash = xml_hash
           THEN /\ h_outcome' = "SKIPPED_NO_CHANGE"
                /\ UNCHANGED h_row
           ELSE /\ h_outcome' = "SUPERSEDED"
                /\ h_row' = [xml_hash |-> xml_hash,
                             rdomains |-> prtn.rdomains,
                             wdomains |-> prtn.wdomains]
    /\ h_pos' = "end"
    /\ UNCHANGED h_nodes
    /\ UNCHANGED notHash

HashNext ==
    \/ ApplyFirstNode
    \/ ApplyNodeAgain

\* ------------------------------------------------------------------------
\* ipcatClient.py: TokenManager, lines 27-68, and the forced refresh of
\* IPCatalogClient.request, lines 162-166, called by several threads
\* ------------------------------------------------------------------------

Threads == {"t1", "t2"}

TokenFrozen ==
    /\ k_lock = "none"
    /\ k_token = 0
    /\ k_fresh = FALSE
    /\ k_pc = [t \in Threads |-> "off"]
    /\ k_calls = 0

\* lines 39-46: _token = None, _expiry = 0; username and password are set
TokenInit ==
    /\ k_lock = "none"
    /\ k_token = 0
    /\ k_fresh = FALSE
    /\ k_pc = [t \in Threads |-> "idle"]
    /\ k_calls = 0

\* the end of a call; "with self._lock" releases the lock on every exit
LeaveTokenManager(t) ==
    /\ k_pc' = [k_pc EXCEPT ![t] = "idle"]
    /\ k_lock' = IF k_lock = t THEN "none" ELSE k_lock

\* lines 48-50: get_token: with self._lock
GetTokenLock(t) ==
    /\ k_pc[t] = "idle"
    /\ k_calls < MaxTokenCalls
    /\ k_lock = "none"
    /\ k_lock' = t
    /\ k_pc' = [k_pc EXCEPT ![t] = "check"]
    /\ k_calls' = k_calls + 1
    /\ UNCHANGED <<k_token, k_fresh>>
    /\ UNCHANGED notToken

\* lines 52-55: a token that is not within 60 s of its expiry is
\* returned; otherwise _refresh_token is entered
GetTokenCheck(t) ==
    /\ k_pc[t] = "check"
    /\ IF k_token # 0 /\ k_fresh
       THEN LeaveTokenManager(t)
       ELSE /\ k_pc' = [k_pc EXCEPT ![t] = "fetch_token"]
            /\ UNCHANGED k_lock
    /\ UNCHANGED <<k_token, k_fresh, k_calls>>
    /\ UNCHANGED notToken

\* request, lines 162-166: a 401 or 403 answer: self.token_manager.
\* _refresh_token() is called directly, self._lock is not taken
ForcedRefresh(t) ==
    /\ k_pc[t] = "idle"
    /\ k_calls < MaxTokenCalls
    /\ k_pc' = [k_pc EXCEPT ![t] = "fetch_token"]
    /\ k_calls' = k_calls + 1
    /\ UNCHANGED <<k_lock, k_token, k_fresh>>
    /\ UNCHANGED notToken

\* lines 62-64: _fetch_token returns and self._token = token
FetchTokenReturns(t) ==
    /\ k_pc[t] = "fetch_token"
    /\ k_token' = k_token + 1
    /\ k_pc' = [k_pc EXCEPT ![t] = "set_expiry"]
    /\ UNCHANGED <<k_lock, k_fresh, k_calls>>
    /\ UNCHANGED notToken

\* lines 62 and 105-126: _fetch_token raises IPCatalogAuthError or a
\* transport error
FetchTokenRaises(t) ==
    /\ k_pc[t] = "fetch_token"
    /\ LeaveTokenManager(t)
    /\ UNCHANGED <<k_token, k_fresh, k_calls>>
    /\ UNCHANGED notToken

\* lines 65-68 and 56: self._expiry = time.time() + self.ttl_seconds
\* (3600), set_token, and the return
SetExpiry(t) ==
    /\ k_pc[t] = "set_expiry"
    /\ k_fresh' = TRUE
    /\ LeaveTokenManager(t)
    /\ UNCHANGED <<k_token, k_calls>>
    /\ UNCHANGED notToken

\* time passes: now reaches self._expiry - 60
TokenAges ==
    /\ k_fresh
    /\ k_fresh' = FALSE
    /\ UNCHANGED <<k_lock, k_token, k_pc, k_calls>>
    /\ UNCHANGED notToken

TokenNext ==
    \/ \E t \in Threads :
        \/ GetTokenLock(t)
        \/ GetTokenCheck(t)
        \/ ForcedRefresh(t)
        \/ FetchTokenReturns(t)
        \/ FetchTokenRaises(t)
        \/ SetExpiry(t)
    \/ TokenAges

\* ------------------------------------------------------------------------
\* orchestrator_neww.py: PolicyOrchestrator.get_policy_by_mpu, lines 40-103,
\* for a known chip; the keys written with setex expire
\* ------------------------------------------------------------------------

\* the ids list_xpu_policies returns for (chip_id, version)
PolicyIds == {1, 2}

\* the orders in which list_xpu_policies can list them
PolicyLists ==
    {ids \in [1..Cardinality(PolicyIds) -> PolicyIds] :
        \A i, j \in DOMAIN ids : ids[i] = ids[j] => i = j}

\* the tasks of the event loop that call get_policy_by_mpu
Tasks == 1..NumTasks

NoIndex == [present |-> FALSE, ids |-> <<>>]

MpuFrozen ==
    /\ b_provider = {}
    /\ b_bloom = FALSE
    /\ b_index = NoIndex
    /\ b_xml = {}
    /\ b_mpu = {}
    /\ b_todo = [t \in Tasks |-> <<>>]
    /\ b_pos = [t \in Tasks |-> "off"]
    /\ b_result = [t \in Tasks |-> "none"]
    /\ b_lookups = 0

\* an empty redis and an empty bloom filter
MpuInit ==
    /\ b_provider \in SUBSET PolicyIds
    /\ b_bloom = FALSE
    /\ b_index = NoIndex
    /\ b_xml = {}
    /\ b_mpu = {}
    /\ b_todo = [t \in Tasks |-> <<>>]
    /\ b_pos = [t \in Tasks |-> "idle"]
    /\ b_result = [t \in Tasks |-> "none"]
    /\ b_lookups = 0

\* the task is between two awaits: the event loop runs nothing else
Running(t) == b_pos[t] \in {"bloom", "setex", "index", "mpu_get", "xml_get"}

\* the event loop can run task t
MayRun(t) == \A u \in Tasks \ {t} : ~Running(u)

\* the call ends
MpuEnds(t, how) ==
    /\ b_result' = [b_result EXCEPT ![t] = how]
    /\ b_pos' = [b_pos EXCEPT ![t] = "end"]

\* lines 40-47: the call, for a chip whose alias is cached
CallGetPolicyByMpu(t) ==
    /\ b_pos[t] \in {"idle", "end"}
    /\ MayRun(t)
    /\ b_lookups < MaxLookups
    /\ b_lookups' = b_lookups + 1
    /\ b_pos' = [b_pos EXCEPT ![t] = "bloom"]
    /\ b_result' = [b_result EXCEPT ![t] = "none"]
    /\ b_todo' = [b_todo EXCEPT ![t] = <<>>]
    /\ UNCHANGED <<b_provider, b_bloom, b_index, b_xml, b_mpu>>
    /\ UNCHANGED notMpu

\* lines 49-52: if not bloom.bfExists(...): list_xpu_policies (which
\* returns the ids in some order, or raises), then bfAdd
BloomCheck(t) ==
    /\ b_pos[t] = "bloom"
    /\ IF ~b_bloom
       THEN \/ /\ \E ids \in PolicyLists :
                     b_todo' = [b_todo EXCEPT ![t] = ids]
               /\ b_bloom' = TRUE
               /\ b_pos' = [b_pos EXCEPT ![t] = "setex"]
               /\ UNCHANGED b_result
            \/ /\ MpuEnds(t, "raised_provider")
               /\ UNCHANGED <<b_bloom, b_todo>>
       ELSE /\ b_pos' = [b_pos EXCEPT ![t] = "index"]
            /\ UNCHANGED <<b_bloom, b_todo, b_result>>
    /\ UNCHANGED <<b_provider, b_index, b_xml, b_mpu, b_lookups>>
    /\ UNCHANGED notMpu

\* lines 54-58: redis_client.setex(POLICY_INDEX_KEY..., TTL_POLICY, the
\* ids of policies joined)
SetPolicyIndex(t) ==
    /\ b_pos[t] = "setex"
    /\ b_index' = [present |-> TRUE, ids |-> b_todo[t]]
    /\ b_pos' = [b_pos EXCEPT ![t] = "index"]
    /\ UNCHANGED <<b_provider, b_bloom, b_xml, b_mpu, b_todo, b_result,
                   b_lookups>>
    /\ UNCHANGED notMpu

\* lines 60-62: redis_client.get(POLICY_INDEX_KEY...).split(","); get
\* returns None for a key that is not there, and None has no split
ReadPolicyIndex(t) ==
    /\ b_pos[t] = "index"
    /\ IF b_index.present
       THEN /\ b_todo' = [b_todo EXCEPT ![t] = b_index.ids]
            /\ b_pos' = [b_pos EXCEPT ![t] = "mpu_get"]
            /\ UNCHANGED b_result
       ELSE /\ MpuEnds(t, "raised_AttributeError")
            /\ UNCHANGED b_todo
    /\ UNCHANGED <<b_provider, b_bloom, b_index, b_xml, b_mpu, b_lookups>>
    /\ UNCHANGED notMpu

\* lines 64-76, the head of the loop: past the last id (None, 0.0) is
\* returned (line 103); redis_client.get(mpu_key) of the next id: a
\* cached mpu is returned
GetMpuKey(t) ==
    /\ b_pos[t] = "mpu_get"
    /\ IF b_todo[t] = <<>>
       THEN MpuEnds(t, "None")
       ELSE IF Head(b_todo[t]) \in b_mpu
       THEN MpuEnds(t, "redis")
       ELSE /\ b_pos' = [b_pos EXCEPT ![t] = "xml_get"]
            /\ UNCHANGED b_result
    /\ UNCHANGED <<b_provider, b_bloom, b_index, b_xml, b_mpu, b_todo,
                   b_lookups>>
    /\ UNCHANGED notMpu

\* lines 78-89: redis_client.get(xml_key); a missing XML is exported
\* (export_policy may raise) and cached; the task suspends in
\* run_in_executor(parse_mpu)
GetXmlKey(t) ==
    /\ b_pos[t] = "xml_get"
    /\ \/ /\ b_xml' = b_xml \cup {Head(b_todo[t])}
          /\ b_pos' = [b_pos EXCEPT ![t] = "for"]
          /\ UNCHANGED b_result
       \/ /\ Head(b_todo[t]) \notin b_xml
          /\ MpuEnds(t, "raised_provider")
          /\ UNCHANGED b_xml
    /\ UNCHANGED <<b_provider, b_bloom, b_index, b_mpu, b_todo, b_lookups>>
    /\ UNCHANGED notMpu

\* lines 89-101: parse_mpu has returned the regions the XML of the
\* policy holds for the mpu: they are cached and returned, or, there
\* being none, the loop goes on to the next id
ForPolicyId(t) ==
    /\ b_pos[t] = "for"
    /\ MayRun(t)
    /\ IF Head(b_todo[t]) \in b_provider
       THEN /\ b_mpu' = b_mpu \cup {Head(b_todo[t])}
            /\ MpuEnds(t, "api+parse")
            /\ UNCHANGED b_todo
       ELSE /\ b_todo' = [b_todo EXCEPT ![t] = Tail(b_todo[t])]
            /\ b_pos' = [b_pos EXCEPT ![t] = "mpu_get"]
            /\ UNCHANGED <<b_mpu, b_result>>
    /\ UNCHANGED <<b_provider, b_bloom, b_index, b_xml, b_lookups>>
    /\ UNCHANGED notMpu

\* the redis command the task is at (bfExists, setex, get; after the
\* await the setex of line 97) raises, and so does the call
RedisRaises(t) ==
    /\ Running(t) \/ (b_pos[t] = "for" /\ MayRun(t))
    /\ MpuEnds(t, "raised_redis")
    /\ UNCHANGED <<b_provider, b_bloom, b_index, b_xml, b_mpu, b_todo,
                   b_lookups>>
    /\ UNCHANGED notMpu

\* TTL_POLICY (lines 9, 56), 24 hours: redis drops the policy index
ExpirePolicyIndex ==
    /\ b_index.present
    /\ b_index' = NoIndex
    /\ UNCHANGED <<b_provider, b_bloom, b_xml, b_mpu, b_todo, b_pos,
                   b_result, b_lookups>>
    /\ UNCHANGED notMpu

\* TTL_POLICY (lines 9, 87), 24 hours: redis drops the XML key of a
\* policy; the policy index, set before it with the same TTL, is gone
ExpireXmlKey ==
    /\ ~b_index.present
    /\ \E i \in b_xml : b_xml' = b_xml \ {i}
    /\ UNCHANGED <<b_provider, b_bloom, b_index, b_mpu, b_todo, b_pos,
                   b_result, b_lookups>>
    /\ UNCHANGED notMpu

\* TTL_MPU (lines 10, 97), 24 hours: redis drops the mpu key of a policy;
\* the XML key of the policy, set before it with the same TTL, is gone
ExpireMpuKey ==
    /\ \E i \in b_mpu \ b_xml : b_mpu' = b_mpu \ {i}
    /\ UNCHANGED <<b_provider, b_bloom, b_index, b_xml, b_todo, b_pos,
                   b_result, b_lookups>>
    /\ UNCHANGED notMpu

MpuNext ==
    \/ \E t \in Tasks :
        \/ CallGetPolicyByMpu(t)
        \/ BloomCheck(t)
        \/ SetPolicyIndex(t)
        \/ ReadPolicyIndex(t)
        \/ GetMpuKey(t)
        \/ GetXmlKey(t)
        \/ ForPolicyId(t)
        \/ RedisRaises(t)
    \/ ExpirePolicyIndex
    \/ ExpireXmlKey
    \/ ExpireMpuKey

\* ------------------------------------------------------------------------
\* Specifications
\* ------------------------------------------------------------------------

\* the components added to the ingestion models, at rest
LaterFrozen ==
    RetryFrozen /\ ClientFrozen /\ SearchFrozen /\ ServiceFrozen /\ SmFrozen
    /\ TreeFrozen
    /\ ApiFrozen
    /\ HashFrozen
    /\ TokenFrozen
    /\ MpuFrozen

Init == ApplyInit /\ DocFrozen /\ LedgerInit /\ QueryFrozen /\ OrchInit
    /\ LaterFrozen

Next == ApplyNext

\* ingest_prtn called one at a time on arbitrary nodes, with a reader
Spec == Init /\ [][Next]_vars

InitConcurrent ==
    ApplyInit /\ DocFrozen /\ LedgerInit /\ QueryFrozen /\ OrchInit
    /\ LaterFrozen

\* two pipelines calling ingest_prtn side by side on one store
SpecConcurrent == InitConcurrent /\ [][ConcurrentNext]_vars

\* passes of ingest_project over one policy file
InitDoc == ApplyInit /\ DocInit /\ LedgerInit /\ QueryFrozen /\ OrchInit
    /\ LaterFrozen

SpecDoc == InitDoc /\ [][DocNext]_vars

\* runs of ingest_one_file on one file, each able to fail or to be killed
SpecLedger == Init /\ [][LedgerNext]_vars

InitQuery == ApplyInit /\ DocFrozen /\ LedgerInit /\ QueryInit /\ OrchInit
    /\ LaterFrozen

\* address queries built by SQLQueryBuilder against any small table
SpecQuery == InitQuery /\ [][QueryNext]_vars

\* query() coroutines of one event loop on one (chip, version)
SpecOrch == Init /\ [][OrchNext]_vars

\* the ingestion, query and orchestrator components at rest
EarlierInit == ApplyInit /\ DocFrozen /\ LedgerInit /\ QueryFrozen /\ OrchInit

InitRetry ==
    EarlierInit /\ RetryInit /\ ClientFrozen /\ SearchFrozen /\ ServiceFrozen
    /\ SmFrozen
    /\ TreeFrozen
    /\ ApiFrozen
    /\ HashFrozen
    /\ TokenFrozen
    /\ MpuFrozen

\* one call of retry with any fn
SpecRetry == InitRetry /\ [][RetryNext]_vars

InitClient ==
    EarlierInit /\ RetryFrozen /\ ClientInit /\ SearchFrozen /\ ServiceFrozen
    /\ SmFrozen
    /\ TreeFrozen
    /\ ApiFrozen
    /\ HashFrozen
    /\ TokenFrozen
    /\ MpuFrozen

\* one call of IPCatalogClient.request against any server
SpecClient == InitClient /\ [][ClientNext]_vars

InitSearch ==
    EarlierInit /\ RetryFrozen /\ ClientFrozen /\ SearchInit /\ ServiceFrozen
    /\ SmFrozen
    /\ TreeFrozen
    /\ ApiFrozen
    /\ HashFrozen
    /\ TokenFrozen
    /\ MpuFrozen

\* one search of query() over any small set of ingested regions
SpecSearch == InitSearch /\ [][SearchNext]_vars

InitService ==
    EarlierInit /\ RetryFrozen /\ ClientFrozen /\ SearchFrozen /\ ServiceInit
    /\ SmFrozen
    /\ TreeFrozen
    /\ ApiFrozen
    /\ HashFrozen
    /\ TokenFrozen
    /\ MpuFrozen

\* successive calls of answer() on one service
SpecService == InitService /\ [][ServiceNext]_vars

InitSm ==
    EarlierInit /\ RetryFrozen /\ ClientFrozen /\ SearchFrozen
    /\ ServiceFrozen /\ SmInit
    /\ TreeFrozen
    /\ ApiFrozen
    /\ HashFrozen
    /\ TokenFrozen
    /\ MpuFrozen

\* runs of ingest_single_xml on one file, each of which may stop anywhere
SpecSm == InitSm /\ [][SmNext]_vars

InitTree ==
    EarlierInit /\ RetryFrozen /\ ClientFrozen /\ SearchFrozen
    /\ ServiceFrozen /\ SmFrozen /\ TreeInit
    /\ ApiFrozen
    /\ HashFrozen
    /\ TokenFrozen
    /\ MpuFrozen

\* address queries on one engine while ingestions change the scope
SpecTree == InitTree /\ [][TreeNext]_vars

InitApi ==
    EarlierInit /\ RetryFrozen /\ ClientFrozen /\ SearchFrozen
    /\ ServiceFrozen /\ SmFrozen /\ TreeFrozen /\ ApiInit
    /\ HashFrozen
    /\ TokenFrozen
    /\ MpuFrozen

\* one request to route_by_address or route_exact over any small table
SpecApi == InitApi /\ [][ApiNext]_vars

InitHash ==
    EarlierInit /\ RetryFrozen /\ ClientFrozen /\ SearchFrozen
    /\ ServiceFrozen /\ SmFrozen /\ TreeFrozen /\ ApiFrozen /\ HashInit
    /\ TokenFrozen
    /\ MpuFrozen

\* a region applied, then applied again with its domain lists reordered
SpecHash == InitHash /\ [][HashNext]_vars

InitToken ==
    EarlierInit /\ RetryFrozen /\ ClientFrozen /\ SearchFrozen
    /\ ServiceFrozen /\ SmFrozen /\ TreeFrozen /\ ApiFrozen /\ HashFrozen
    /\ TokenInit
    /\ MpuFrozen

\* threads calling get_token and request's forced refresh on one manager
SpecToken == InitToken /\ [][TokenNext]_vars

InitMpu ==
    EarlierInit /\ RetryFrozen /\ ClientFrozen /\ SearchFrozen
    /\ ServiceFrozen /\ SmFrozen /\ TreeFrozen /\ ApiFrozen /\ HashFrozen
    /\ TokenFrozen /\ MpuInit

\* get_policy_by_mpu called repeatedly while redis keys expire
SpecMpu == InitMpu /\ [][MpuNext]_vars

\* ------------------------------------------------------------------------
\* Claims
\* ------------------------------------------------------------------------

\* C1: after any sequence of ingest_prtn calls made one at a time, also when
\* a call raised after the deactivation, after the store insert or during the
\* Weaviate write and the region was applied again, every identity has at
\* most one row with is_active = true.
C1_AtMostOneActive ==
    \A identity \in Identities : Cardinality(ActiveRows(identity)) <= 1

\* C1 witness: a region was applied again after a call that raised between
\* the deactivation and the insert (an inactive row, and a younger active row
\* of the same identity that supersedes nothing), and the call has returned.
C1_Witness ==
    /\ outcome["w1"] = "INSERTED_NEW"
    /\ \E old \in policy_chunks, new \in policy_chunks :
          /\ ~old.is_active
          /\ new.is_active
          /\ IdentityOf(old) = IdentityOf(new)
          /\ new.chunk_id > old.chunk_id
          /\ new.supersedes_chunk_id = NoId

\* C2 (as claimed): a reader that selects the active rows of an identity
\* while its supersession runs always finds exactly one row.
C2_ReaderSeesExactlyOne == seen \subseteq {1}

\* C3 (as claimed): once a pass over the file is complete, a further pass
\* over the same file leaves policy_chunks as it was: the same ids active,
\* nothing deactivated, nothing inserted.
C3_SecondPassChangesNothing == passNo >= 1 => policy_chunks = snap

\* C4 (as claimed): a run that finds the ledger FAILED or IN_PROGRESS with
\* last_chunk_index = k gives no chunk with index <= k to
\* ingest_single_chunk.
C4_ResumeSkipsCommitted ==
    rowAtStart.status \in {"FAILED", "IN_PROGRESS"} =>
        \A i \in spy : i > rowAtStart.last_chunk_index

\* C5 (as claimed): when the retries of a chunk are exhausted the ledger row
\* is FAILED with the error recorded and last_chunk_index is the index of
\* the last chunk committed by update_chunk.
C5_FailedKeepsLastGood ==
    (/\ ingestion_progress.status = "FAILED"
     /\ ingestion_progress.error = "chunk insert failed") =>
        ingestion_progress.last_chunk_index = lastGood

\* retries.py alone: a run of ingest_one_file that is called when the
\* ledger row is DONE takes no step that changes the ledger row, the store
\* or the index or that ingests a chunk; its only step is the return.
DoneRunOfOneFileIsNoop ==
    [][(rowAtStart.status = "DONE" /\ rpc # "idle") =>
          /\ rpc' = "idle"
          /\ UNCHANGED <<ingestion_progress, pgChunks, wvChunks, spy>>]_vars

\* C6 (as claimed): while the ledger row of a file is DONE no step of a
\* pipeline run changes the row, the rows of policy_chunks or the vectors
\* of Weaviate; here for ingest_single_xml of state_machine.py.
C6_DoneRunIsNoop ==
    [][m_progress.status = "DONE" =>
          UNCHANGED <<m_progress, m_rows, m_linked, m_vectors>>]_vars

\* the rows of the scope of the latest query (the mpu filter, when given)
InScope(row) == filters.mpu_name = NULL \/ row.mpu_name = filters.mpu_name

\* the stored row a returned row was made from
Stored(r) ==
    [mpu_name |-> r.mpu_name, rg_index |-> r.rg_index,
     addr_start |-> r.addr_start, addr_end |-> r.addr_end]

\* the ingested regions that match the arguments of the search
MatchingRegions ==
    {r \in s_regions :
        /\ ~Truthy(s_query.profile) \/ Upper(s_query.profile) \in r.profiles
        /\ IF s_query.address # NoAddr
           THEN /\ r.start <= s_query.address
                /\ s_query.address <= r.end
                /\ ~Truthy(s_query.stage) \/ r.stage = s_query.stage
           ELSE r.region_number = s_query.region_number}

\* C7 (as claimed): a point query returns at most one region: of the
\* regions of the scope that cover the address the one of the smallest
\* end-start extent, among those of equal smallest extent the one of the
\* highest region index, and nothing when none covers the address; here
\* for _search_by_address of unifiedpoliciy.py.
C7_PointQuery ==
    (s_pos = "end" /\ s_query.address # NoAddr) =>
        /\ s_result.kind = "returned"
        /\ Cardinality(s_result.rows) <= 1
        /\ (MatchingRegions = {}) <=> (s_result.rows = {})
        /\ \A r \in s_result.rows :
              /\ r \in MatchingRegions
              /\ \A other \in MatchingRegions :
                    \/ other.end - other.start > r.end - r.start
                    \/ /\ other.end - other.start = r.end - r.start
                       /\ other.region_number <= r.region_number

IsRange == filters.addr_start # NoAddr /\ filters.addr_end # NoAddr

\* the rows of the scope that overlap the range of the latest range query
Overlapping ==
    {row \in xml_chunks :
        /\ InScope(row)
        /\ row.addr_start <= filters.addr_end
        /\ row.addr_end >= filters.addr_start}

\* C8 (as claimed): a range query returns exactly the regions of the scope
\* with start <= rangeEnd and end >= rangeStart, each of them once; here
\* for the builders of sql-explain.py and of sql_latest.py.
C8_RangeQueryExact ==
    IsRange =>
        /\ {Stored(result[i]) : i \in 1..Len(result)} = Overlapping
        /\ Len(result) = Cardinality(Overlapping)

\* the overlap of a stored row with the range of the latest request
ApiOverlapSize(row) ==
    LEAST(row.end_dec, api_req.end) - GREATEST(row.start_dec, api_req.start)

\* C9 (as claimed): each result of a range query carries overlapStart =
\* max(start, rangeStart) and overlapEnd = min(end, rangeEnd), and the
\* results come by overlap size descending, results of equal overlap size
\* by region index descending; here for route_by_address of rag_api.py.
C9_RangeOverlapOrder ==
    api_pos = "route_by_address" =>
        /\ \A i \in 1..Len(api_result), j \in 1..Len(api_result) :
              i < j =>
                 \/ ApiOverlapSize(api_result[i]) > ApiOverlapSize(api_result[j])
                 \/ /\ ApiOverlapSize(api_result[i])
                          = ApiOverlapSize(api_result[j])
                    /\ api_result[i].rg_index >= api_result[j].rg_index
        /\ \A i \in 1..Len(api_result) :
              /\ {"overlap_start", "overlap_end"}
                    \subseteq DOMAIN api_result[i]
              /\ api_result[i].overlap_start =
                    GREATEST(api_result[i].start_dec, api_req.start)
              /\ api_result[i].overlap_end =
                    LEAST(api_result[i].end_dec, api_req.end)

\* C10 (as claimed): of the query() calls that find the marker of the scope
\* absent only one starts _ingest_chip; the others wait for it: two
\* ingestions of the scope are never in flight together.
C10_SingleFlight ==
    Cardinality({c \in Callers : cpc[c] = "ingesting"}) <= 1

\* the row of policy_chunks with this chunk_id
RowOf(id) == CHOOSE row \in policy_chunks : row.chunk_id = id

\* C11: when ingest_prtn finds an active row of the region's identity whose
\* hash differs it takes that row as the old one, and when the call ends
\* as SUPERSEDED the old row is inactive, the new row is the only active
\* row of the identity, carries the hash of the region and has
\* supersedes_chunk_id = the id of the old row.
C11_Supersede ==
    [][\A p \in Procs :
          /\ (pc[p] = "lookup" /\ pc'[p] = "deactivate") =>
                \E old \in policy_chunks :
                   /\ old.chunk_id = oldOf'[p]
                   /\ old.is_active
                   /\ IdentityOf(old) =
                         <<prtnOf[p].rg_index, Coalesce(prtnOf[p].profile)>>
                   /\ old.xml_hash # sha256(raw_xml(prtnOf[p]))
          /\ (pc[p] = "lookup" /\ pc'[p] = "insert") =>
                ActiveRows(<<prtnOf[p].rg_index,
                             Coalesce(prtnOf[p].profile)>>) = {}
          /\ (outcome[p] = "RUNNING" /\ outcome'[p] = "SUPERSEDED") =>
                \E old \in policy_chunks', new \in policy_chunks' :
                   /\ old.chunk_id = oldOf[p]
                   /\ new.chunk_id = newOf[p]
                   /\ ~old.is_active
                   /\ new.is_active
                   /\ new.supersedes_chunk_id = old.chunk_id
                   /\ new.xml_hash = sha256(raw_xml(prtnOf[p]))
                   /\ IdentityOf(new) = IdentityOf(old)
                   /\ {row \in policy_chunks' :
                          row.is_active /\ IdentityOf(row) = IdentityOf(new)}
                         = {new}
       ]_vars

\* C11 witness: a call has ended as SUPERSEDED; the row it inserted is
\* active and names the inactive row it replaced.
C11_Witness ==
    /\ outcome["w1"] = "SUPERSEDED"
    /\ \E new \in policy_chunks :
          /\ new.is_active
          /\ new.supersedes_chunk_id # NoId
          /\ ~RowOf(new.supersedes_chunk_id).is_active
          /\ RowOf(new.supersedes_chunk_id).xml_hash # new.xml_hash

\* C12 (as claimed): a region whose start address differs from that of the
\* active row of the same project, unit, region index and profile is a new
\* identity: it is inserted with no supersedes_chunk_id and the row of the
\* old start address stays active, so no row supersedes a row of another
\* start address.
C12_MoveIsNewIdentity ==
    \A new \in policy_chunks :
       new.supersedes_chunk_id # NoId =>
          RowOf(new.supersedes_chunk_id).start_hex = new.start_hex

\* C17 (as claimed): a supersession whose insert fails does not leave the
\* deactivation behind: when no ingest_prtn is running every identity that
\* has a row has exactly one active row.
C17_FailedInsertKeepsOldActive ==
    (\A p \in Procs : pc[p] = "idle") =>
        \A identity \in Identities :
           (\E row \in policy_chunks : IdentityOf(row) = identity) =>
               Cardinality(ActiveRows(identity)) = 1

\* C13: retry(fn, retries = n) with n >= 1 calls fn at most n times; it
\* returns the result of the first call that succeeds and calls fn no more;
\* when all n calls fail it raises the error of the n-th call.
C13_Retry ==
    r_retries >= 1 =>
        /\ r_calls <= r_retries
        /\ r_pos = "end" =>
              \/ /\ r_result.kind = "returned"
                 /\ r_result.call = r_calls
                 /\ r_fn[r_calls] = "ok"
                 /\ \A i \in 1..(r_calls - 1) : r_fn[i] = "err"
              \/ /\ r_result.kind = "raised"
                 /\ r_result.call = r_retries
                 /\ r_calls = r_retries
                 /\ \A i \in 1..r_retries : r_fn[i] = "err"

\* C13 witness: retry with retries >= 2 has raised the error of its last
\* call although a further call of fn would have succeeded.
C13_Witness ==
    /\ r_pos = "end"
    /\ r_retries >= 2
    /\ r_result.kind = "raised"
    /\ r_fn[r_retries + 1] = "ok"

IsAuthFailure(request) == request.answer \in {"401", "403"}

\* the calls of _refresh_token that line 165 made: one for each request
\* answered 401 / 403
ForcedRefreshes ==
    IF c_token_manager
    THEN Cardinality({i \in 1..Len(c_requests) :
                         IsAuthFailure(c_requests[i])})
    ELSE 0

\* C14 (as claimed): after a request answered with an authentication
\* failure the client refreshes the credential once and retries once with
\* the refreshed credential; when the retry is answered with an
\* authentication failure too, request raises, sends nothing more and
\* returns no value.
C14_AuthRefreshOnce ==
    c_token_manager =>
        /\ ForcedRefreshes <= 1
        /\ \A i \in 1..Len(c_requests) :
              (i > 1 /\ IsAuthFailure(c_requests[i - 1])) =>
                  /\ c_requests[i].token # c_requests[i - 1].token
                  /\ IsAuthFailure(c_requests[i]) =>
                        /\ Len(c_requests) = i
                        /\ c_pos = "end" => c_result = "raised_auth"

\* C15 (as claimed): a search by address or by region number over ingested
\* data without a matching region returns the empty list and raises
\* nothing.
C15_EmptyIsNoError ==
    (/\ s_pos = "end"
     /\ s_query.address # NoAddr \/ s_query.region_number # NoAddr
     /\ MatchingRegions = {}) =>
        s_result = [kind |-> "returned", rows |-> {}]

\* C16 (as claimed): answer returns a clarification, retrieves nothing,
\* calls no LLM and leaves the session as it was exactly when the query
\* lacks the project or the version; when the query holds both, answer
\* stores them in the session and returns the LLM response.
C16_ClarifyIffQueryLacksContext ==
    (a_pos = "idle" /\ a_turns > 0) =>
        IF a_query.project = NULL \/ a_query.version = NULL
        THEN /\ a_answer \in Clarifications
             /\ a_retrievals = 0
             /\ a_llm_calls = 0
             /\ a_session = a_session0
        ELSE /\ a_answer = "llm_response"
             /\ a_session = a_query

\* the edges of the ledger status
StatusEdges ==
    {<<"ABSENT", "PENDING">>, <<"PENDING", "IN_PROGRESS">>,
     <<"IN_PROGRESS", "DONE">>, <<"IN_PROGRESS", "FAILED">>,
     <<"FAILED", "IN_PROGRESS">>, <<"IN_PROGRESS", "IN_PROGRESS">>}

\* retries.py alone: every write of the ledger row of a document takes its
\* status along absent -> PENDING, PENDING -> IN_PROGRESS, IN_PROGRESS ->
\* DONE, IN_PROGRESS -> FAILED or (a retry run) FAILED / IN_PROGRESS ->
\* IN_PROGRESS; a DONE row is never written again.
StatusEdgesOfOneFile ==
    [][/\ ingestion_progress' # ingestion_progress =>
             <<ingestion_progress.status, ingestion_progress'.status>>
                 \in StatusEdges
       /\ ingestion_progress.status = "DONE" =>
             ingestion_progress' = ingestion_progress
      ]_vars

\* C18 (as claimed): every change of the ledger status of a file goes
\* along absent -> PENDING, PENDING -> IN_PROGRESS, IN_PROGRESS -> DONE,
\* IN_PROGRESS -> FAILED or (a retry run) FAILED / IN_PROGRESS ->
\* IN_PROGRESS; here for ingest_single_xml of state_machine.py.
C18_StatusEdges ==
    [][m_progress'.status # m_progress.status =>
          <<m_progress.status, m_progress'.status>> \in StatusEdges]_vars

\* C19 (as claimed): no write of the ledger row of a document lowers its
\* last_chunk_index.
C19_LastChunkMonotonic ==
    [][ingestion_progress'.last_chunk_index
          >= ingestion_progress.last_chunk_index]_vars

\* C20 (as claimed): when the ledger row of the file has last_chunk_index
\* k, every chunk with chunk_index <= k has its row in policy_chunks and
\* its vector in Weaviate, and when the row is DONE every chunk of the
\* file has both; runs that stopped between insert_chunk and insert_vector
\* and were followed by another run are included.
C20_LedgerImpliesStoredAndIndexed ==
    \A i \in PolicyChunks :
        (i <= m_progress.last_chunk_index \/ m_progress.status = "DONE")
            => (i \in m_rows /\ i \in m_vectors)

\* C21 (as claimed): an address query that has returned holds only regions
\* that redis holds for the scope now, also when an ingestion changed the
\* regions of the scope between two queries.
C21_QueryFromCurrentActiveSet ==
    t_pos = "returned" => t_result \subseteq t_redis

\* C22 (as claimed): the existence marker of a scope is set only once the
\* data of the scope is written, and a call whose ingestion fails leaves
\* the marker absent; here for get_policy_by_mpu of orchestrator_neww.py,
\* whose marker is the bloom filter entry and whose data is the policy
\* index.
C22_MarkerAfterIngestion ==
    [][/\ (~b_bloom /\ b_bloom') => b_index'.present
       /\ \A t \in Tasks :
             (/\ b_pos[t] = "setex" \/ (b_pos[t] = "bloom" /\ ~b_bloom)
              /\ b_pos'[t] = "end") => ~b_bloom'
      ]_vars

\* C23 (as claimed): when ingest_prtn returns from case C (SUPERSEDED),
\* Weaviate holds no object under the chunk_id of the superseded row and
\* holds one under the chunk_id of the new row.
C23_SupersededVectorRemoved ==
    [][\A p \in Procs :
          (outcome[p] = "RUNNING" /\ outcome'[p] = "SUPERSEDED") =>
              /\ oldOf[p] \notin wv'
              /\ newOf[p] \in wv'
      ]_vars

\* C24 (as claimed): route_by_address and route_exact return only rows with
\* is_active = true, whatever policy_version, mpu_name and profile the
\* request carries.
C24_OnlyActiveReturned ==
    api_pos \in {"route_by_address", "route_exact"} =>
        \A i \in 1..Len(api_result) : api_result[i].is_active

\* C25 (as claimed): when two pipelines apply regions side by side, then
\* under every interleaving of their statements the store holds at most
\* one active row for each identity once both have returned.
C25_ConcurrentAtMostOneActive ==
    (\A p \in Procs : pc[p] = "idle" /\ outcome[p] # "RAISED") =>
        \A identity \in Identities : Cardinality(ActiveRows(identity)) <= 1

\* C26 (as claimed): a region whose rdomains or wdomains entries come in
\* another order has the xml_hash of the active row, so applying it again
\* is case B (SKIPPED_NO_CHANGE).
C26_ReorderedIsNoChange ==
    h_pos = "end" => h_outcome = "SKIPPED_NO_CHANGE"

\* C27 (as claimed, the part on credential fetches): under every
\* interleaving of get_token calls and of the forced refreshes of request
\* at most one thread is inside _fetch_token.
C27_OneFetchAtATime ==
    Cardinality({t \in Threads : k_pc[t] = "fetch_token"}) <= 1

\* C28 (as claimed): within one run, once pg.insert_chunk has returned for
\* a chunk (the run is at the vector insert of that chunk), the run does
\* not execute pg.insert_chunk for that chunk again.
C28_StoreInsertNotRepeated ==
    [][~(rpc = "wv" /\ rpc' = "pg" /\ idx' = idx)]_vars

\* C29 (as claimed): a run on a file that is not DONE, in which every
\* statement returns or raises, does not end with the status of the file
\* left at PENDING or IN_PROGRESS. A run ends at a ledger statement of
\* ingest_one_file: by its return (lines 91, 99, 104) or by its exception.
C29_RunEndsDoneOrFailed ==
    [][(/\ rpc \in {"get", "pending", "in_progress", "done",
                    "failed_chunk", "failed_ledger"}
        /\ rpc' = "idle") =>
           ingestion_progress'.status \notin {"PENDING", "IN_PROGRESS"}
      ]_vars

\* C30 (as claimed): a get_policy_by_mpu for a scope whose marker is in
\* the bloom filter and whose provider holds regions of the mpu returns
\* them (from redis, or fetched and parsed again), also when the keys of
\* the scope have expired; unless the provider or redis itself fails it
\* does not raise and does not return None.
C30_ExpiredEntriesRepopulated ==
    \A t \in Tasks :
        (/\ b_pos[t] = "end"
         /\ b_bloom
         /\ b_provider # {}
         /\ b_result[t] \notin {"raised_provider", "raised_redis"}) =>
            b_result[t] \in {"redis", "api+parse"}

====
